---- MODULE Spec2Model ----
(***************************************************************************)
(* Model of the destination cache of app/routes/destinations.py: the       *)
(* IndexedCache singleton, refresh_cache, is_cache_valid, invalidate_cache,*)
(* read_destinations, write_destinations and the route handlers, run by    *)
(* the event-loop thread and by the worker threads that execute the        *)
(* BackgroundTasks added by read_destinations.                             *)
(*                                                                         *)
(* Python values: a str is a sequence of one-character strings; None / an  *)
(* Optional value is a sequence of length 0 / 1 (None, Some(x)); a list    *)
(* position is 0-based as in the code, a TLA+ sequence is 1-based.         *)
(***************************************************************************)
EXTENDS Integers, Sequences, FiniteSets, TLC

(***************************************************************************)
(* Bounds of the model.                                                    *)
(***************************************************************************)
\* Spec: requests served, writes by other processes, clock steps, pool threads
MaxRequests == 4
MaxExtWrites == 1
MaxTicks == 2
NumWorkers == 1
\* SpecCore: the same machine with fewer requests and clock steps
CoreRequests == 2
CoreTicks == 1
\* SpecLocal: no other process writes the file
LocalRequests == 3
LocalTicks == 1
\* SpecSeq: requests served one after the other, nothing else running
SeqRequestCount == 2
\* the requests of one behaviour of SpecQuery, and the pages it asks for
QueryRequestCount == 3
MaxPage == 3

(***************************************************************************)
(* Program constants.                                                      *)
(***************************************************************************)
CACHE_TTL == 60
DefaultLimit == 100
DefaultSkip == 0

None == <<>>
Some(x) == <<x>>
IsNone(o) == o = <<>>
Get(o) == o[1]

(***************************************************************************)
(* str: characters, lower(), the \w class, comparison, "in".               *)
(***************************************************************************)
\* F applied to the value of e, which is evaluated once
Once(e, F(_)) == CHOOSE y \in {F(x) : x \in {e}} : TRUE

UpperChars == <<"A","B","C","D","E","F","G","H","I","J","K","L","M",
                "N","O","P","Q","R","S","T","U","V","W","X","Y","Z">>
LowerChars == <<"a","b","c","d","e","f","g","h","i","j","k","l","m",
                "n","o","p","q","r","s","t","u","v","w","x","y","z">>
DigitChars == <<"0","1","2","3","4","5","6","7","8","9">>
\* code-point order of the characters used:
\* ' ' < '-' < '.' < digits < '@' < upper < '_' < lower
Ascii == <<" ", "-", ".">> \o DigitChars \o <<"@">> \o UpperChars \o <<"_">> \o LowerChars
Range(s) == {s[i] : i \in DOMAIN s}
CharSet == Range(Ascii)
OrdMap == [c \in CharSet |-> CHOOSE i \in DOMAIN Ascii : Ascii[i] = c]
Ord(c) == OrdMap[c]
LowerMap ==
  [c \in CharSet |->
     IF c \in Range(UpperChars)
       THEN LowerChars[CHOOSE i \in DOMAIN UpperChars : UpperChars[i] = c]
       ELSE c]
LowerChar(c) == LowerMap[c]
Lower(s) == [i \in DOMAIN s |-> LowerChar(s[i])]
WordChars == Range(UpperChars) \cup Range(LowerChars) \cup Range(DigitChars) \cup {"_"}
IsWordChar(c) == c \in WordChars

\* Python's str < str: lexicographic by code point, a proper prefix is smaller
RECURSIVE StrLess(_, _)
StrLess(a, b) ==
  IF b = <<>> THEN FALSE
  ELSE IF a = <<>> THEN TRUE
  ELSE IF a[1] # b[1] THEN Ord(a[1]) < Ord(b[1])
  ELSE StrLess(Tail(a), Tail(b))

\* Python's "sub in s"
Contains(s, sub) ==
  \E k \in 0..(Len(s) - Len(sub)) : SubSeq(s, k + 1, k + Len(sub)) = sub

\* re.findall(r'\w+', s): the maximal runs of word characters, left to right
WordStarts(s) ==
  {i \in DOMAIN s : IsWordChar(s[i]) /\ (i = 1 \/ ~IsWordChar(s[i - 1]))}
WordEnd(s, i) ==
  CHOOSE j \in i..Len(s) :
    /\ \A k \in i..j : IsWordChar(s[k])
    /\ j = Len(s) \/ ~IsWordChar(s[j + 1])
NthStart(s, n) ==
  CHOOSE i \in WordStarts(s) : Cardinality({j \in WordStarts(s) : j < i}) = n - 1
FindWords(s) ==
  [n \in 1..Cardinality(WordStarts(s)) |->
     SubSeq(s, NthStart(s, n), WordEnd(s, NthStart(s, n)))]

\* the words an index key is made of: len(word) > 2
MinWordLen == 2
LongWords(s) ==
  Once(Lower(s), LAMBDA l : SelectSeq(FindWords(l), LAMBDA w : Len(w) > MinWordLen))

(***************************************************************************)
(* Destination records (app/models/destination.py).                        *)
(***************************************************************************)
PriceRange == {"budget", "moderate", "luxury", "ultra_luxury"}
Destination(id, name, location, description, price, avail) ==
  [destination_id |-> id, name |-> name, location |-> location,
   description |-> description, price_range |-> price, availability |-> avail]

(***************************************************************************)
(* dict / defaultdict(list): a function from the keys present to lists.    *)
(***************************************************************************)
EmptyDict == <<>>
DictGet(d, k) == IF k \in DOMAIN d THEN d[k] ELSE <<>>
\* d[k].append(v) on a defaultdict(list)
DictAppend(d, k, v) ==
  [x \in (DOMAIN d) \cup {k} |-> IF x = k THEN Append(DictGet(d, k), v) ELSE d[x]]

RECURSIVE AppendWords(_, _, _)
AppendWords(idx, words, i) ==
  IF words = <<>> THEN idx
  ELSE Once(DictAppend(idx, Head(words), i),
            LAMBDA next : Once(Tail(words), LAMBDA rest : AppendWords(next, rest, i)))

EmptyIndexes ==
  [name_index |-> EmptyDict, location_index |-> EmptyDict,
   price_range_index |-> EmptyDict,
   availability_index |-> [b \in BOOLEAN |-> <<>>]]

\* one iteration of the loop of build_indexes, for position i (0-based)
IndexOne(ix, i, d) ==
  [name_index |->
     Once(LongWords(d.name), LAMBDA words : AppendWords(ix.name_index, words, i)),
   location_index |-> DictAppend(ix.location_index, Lower(d.location), i),
   price_range_index |-> DictAppend(ix.price_range_index, d.price_range, i),
   availability_index |->
     [ix.availability_index EXCEPT ![d.availability] = Append(@, i)]]

\* the loop "for i, destination in enumerate(self.data)" over the positions
\* lo .. hi - 1 in ascending order: the first half, then the second on its result
RECURSIVE IndexLoop(_, _, _, _)
IndexLoop(ix, data, lo, hi) ==
  IF lo >= hi THEN ix
  ELSE IF hi = lo + 1 THEN IndexOne(ix, lo, data[lo + 1])
  ELSE Once(IndexLoop(ix, data, lo, (lo + hi) \div 2),
            LAMBDA half : IndexLoop(half, data, (lo + hi) \div 2, hi))

\* the four indexes of a freshly cleared cache after the loop over data
IndexesOf(data) == IndexLoop(EmptyIndexes, data, 0, Len(data))

\* IndexedCache.build_indexes: returns early on a falsy data (None or [])
BuildIndexes(ix, optData) ==
  IF IsNone(optData) \/ Get(optData) = <<>> THEN ix ELSE IndexesOf(Get(optData))

(***************************************************************************)
(* The query of read_destinations (lines 145-175) as functions of the      *)
(* values it reads.                                                        *)
(***************************************************************************)
SeqToSet(s) == {s[i] : i \in DOMAIN s}
Min(a, b) == IF a < b THEN a ELSE b
Max(a, b) == IF a > b THEN a ELSE b

\* set(range(len(data)))
AllPositions(data) == 0..(Len(data) - 1)

\* the union of name_index.get(word, []) over the filter's words longer than 2
NameIndexMatches(ix, nf) ==
  UNION {SeqToSet(DictGet(ix.name_index, w)) : w \in SeqToSet(LongWords(nf))}
\* {i for i, dest in enumerate(data) if name_filter.lower() in dest.name.lower()}
NameScan(data, nf) ==
  {i \in AllPositions(data) : Contains(Lower(data[i + 1].name), Lower(nf))}
\* the same without the scan of lines 152-153
NameMatchesIndexOnly(ix, data, nf) == NameIndexMatches(ix, nf)
NameMatches(ix, data, nf) ==
  IF NameIndexMatches(ix, nf) # {} THEN NameIndexMatches(ix, nf) ELSE NameScan(data, nf)

LocationIndexMatches(ix, lf) == SeqToSet(DictGet(ix.location_index, Lower(lf)))
LocationScan(data, lf) ==
  {i \in AllPositions(data) : Contains(Lower(data[i + 1].location), Lower(lf))}
LocationMatches(ix, data, lf) ==
  IF LocationIndexMatches(ix, lf) # {} THEN LocationIndexMatches(ix, lf)
  ELSE LocationScan(data, lf)

PriceMatches(ix, pf) == SeqToSet(DictGet(ix.price_range_index, pf))
AvailabilityMatches(ix, af) == SeqToSet(ix.availability_index[af])

\* a filter is a record of Optional values; "" and None are both falsy
NoFilters ==
  [name |-> None, location |-> None, price_range |-> None, availability |-> None]
NameGiven(q) == ~IsNone(q.name) /\ Get(q.name) # <<>>
LocationGiven(q) == ~IsNone(q.location) /\ Get(q.location) # <<>>
PriceGiven(q) == ~IsNone(q.price_range)
AvailabilityGiven(q) == ~IsNone(q.availability)
UsesIndexes(q) ==
  NameGiven(q) \/ LocationGiven(q) \/ PriceGiven(q) \/ AvailabilityGiven(q)
\* the fallback scans enumerate _cache.data
ScansData(ix, q) ==
  \/ NameGiven(q) /\ NameIndexMatches(ix, Get(q.name)) = {}
  \/ LocationGiven(q) /\ LocationIndexMatches(ix, Get(q.location)) = {}

\* the same with "if availability_filter:" for the last test
FilterPositionsTruthyAvailability(start, ix, data, q) ==
  LET r1 == IF NameGiven(q) THEN start \cap NameMatches(ix, data, Get(q.name)) ELSE start
      r2 == IF LocationGiven(q)
              THEN r1 \cap LocationMatches(ix, data, Get(q.location)) ELSE r1
      r3 == IF PriceGiven(q) THEN r2 \cap PriceMatches(ix, Get(q.price_range)) ELSE r2
  IN  IF AvailabilityGiven(q) /\ Get(q.availability)
        THEN r3 \cap AvailabilityMatches(ix, Get(q.availability)) ELSE r3

\* lines 147-167: the successive intersections
FilterPositions(start, ix, data, q) ==
  LET r1 == IF NameGiven(q) THEN start \cap NameMatches(ix, data, Get(q.name)) ELSE start
      r2 == IF LocationGiven(q)
              THEN r1 \cap LocationMatches(ix, data, Get(q.location)) ELSE r1
      r3 == IF PriceGiven(q) THEN r2 \cap PriceMatches(ix, Get(q.price_range)) ELSE r2
  IN  IF AvailabilityGiven(q)
        THEN r3 \cap AvailabilityMatches(ix, Get(q.availability)) ELSE r3

\* [_cache.data[i] for i in result_indexes]: a set of small ints iterates ascending
Materialize(data, positions) ==
  LET pos == SelectSeq([k \in 1..Len(data) |-> k - 1], LAMBDA i : i \in positions)
  IN  [k \in DOMAIN pos |-> data[pos[k] + 1]]

\* list.sort(key=lambda x: x.name): stable, ascending by name
RECURSIVE InsertByName(_, _)
InsertByName(s, x) ==
  IF s = <<>> \/ ~StrLess(x.name, s[Len(s)].name) THEN Append(s, x)
  ELSE Append(InsertByName(SubSeq(s, 1, Len(s) - 1), x), s[Len(s)])
\* insertion of s[1], s[2], ... in turn; st is (the number inserted, the result)
RECURSIVE SortLoop(_, _)
SortLoop(st, s) ==
  IF st.k >= Len(s) THEN st.acc
  ELSE SortLoop([k |-> st.k + 1, acc |-> InsertByName(st.acc, s[st.k + 1])], s)
SortByName(s) == SortLoop([k |-> 0, acc |-> <<>>], s)

\* s[skip:limit]
SliceToLimit(s, skip, limit) == SubSeq(s, skip + 1, Min(limit, Len(s)))
\* s[skip:skip + limit]
Slice(s, skip, limit) == SubSeq(s, skip + 1, Min(skip + limit, Len(s)))

(***************************************************************************)
(* State.                                                                  *)
(*   cache   the IndexedCache singleton _cache                             *)
(*   file    DATA_FILE: exists, content (None when it does not parse),     *)
(*           mtime (os.path.getmtime; every write advances it)             *)
(*   now     time.time()                                                   *)
(*   pc      the position of every thread: thread 0 is the event loop,     *)
(*           which runs the route handlers one at a time; threads          *)
(*           1..NumWorkers are the pool threads that run the background    *)
(*           tasks (refresh_cache is a plain def, so it runs in a thread)  *)
(*   loaded  per thread, the list refresh_cache has read and not yet       *)
(*           assigned to _cache.data                                       *)
(*   req     the locals of the running handler and of its read_destinations*)
(*   tasks   background tasks handed over and not yet started              *)
(*   uuids   number of uuid4() values drawn                                *)
(*   hist    history: what was read from which write, whether a read has   *)
(*           just succeeded with the clock and the file left alone since,  *)
(*           what is left of                                               *)
(*           the bounds on requests, clock steps and outside writes        *)
(*   manager the CustomerDataManager of customers.py: customers.json, its  *)
(*           _customer_index, and bookings.json which it reads and prunes  *)
(*   reply   the answer of the last customer handler, and how many         *)
(*           customer requests are left                                    *)
(***************************************************************************)
VARIABLES cache, file, now, pc, loaded, req, tasks, uuids, hist, manager, reply

vars == <<cache, file, now, pc, loaded, req, tasks, uuids, hist, manager, reply>>

EventLoop == 0
Workers == 1..NumWorkers
Threads == {EventLoop} \cup Workers

\* time.time() at process start is a Unix time, far beyond CACHE_TTL
StartTime == CACHE_TTL + 40
\* the age beyond which a hit schedules a background refresh: CACHE_TTL * 0.8
RefreshAge == (CACHE_TTL * 8) \div 10
\* how far the clock moves in one step: past the refresh age, twice past the TTL
TickSteps == {RefreshAge + 1}

(***************************************************************************)
(* The records the requests and the other writers of the file use.         *)
(***************************************************************************)
Paris == Destination(1, <<"P","a","r","i","s">>, <<"F","r","a","n","c","e">>,
                     "City of Light", "moderate", TRUE)
Tokyo == Destination(2, <<"T","o","k","y","o">>, <<"J","a","p","a","n">>,
                     "Bustling metropolis", "luxury", TRUE)
Bali == Destination(3, <<"B","a","l","i">>, <<"I","n","d","o","n","e","s","i","a">>,
                    "Island paradise", "budget", FALSE)
NewYork == Destination(4, <<"N","e","w"," ","Y","o","r","k">>,
                       <<"U","n","i","t","e","d"," ","S","t","a","t","e","s">>,
                       "Never sleeps", "ultra_luxury", TRUE)
NewDelhi == Destination(5, <<"N","e","w"," ","D","e","l","h","i">>,
                        <<"I","n","d","i","a">>, "Capital", "budget", TRUE)
\* uuid4() never returns an id in use: the k-th draw is FirstUuid + k
FirstUuid == NewDelhi.destination_id + 1
\* the file as it may be found at start, and what another process may write
SeedContent == <<Tokyo, Paris>>
ExtContents == {Some(<<Bali>>), None}
\* the store the queries of SpecQuery are asked of, in file order
QueryContent == <<Tokyo, Paris, NewDelhi, Bali, NewYork>>

\* a store of one record more than the default limit of read_destinations,
\* named N000, N001, ... in list order
Digit(n) == DigitChars[n + 1]
BulkName(i) == <<"N", Digit(i \div 100), Digit((i \div 10) % 10), Digit(i % 10)>>
BulkId(i) == 100 + i
BulkRecord(i) ==
  Destination(BulkId(i), BulkName(i), <<"B","u","l","k">>, "bulk", "budget", TRUE)
BulkContent == [i \in 1..(DefaultLimit + 1) |-> BulkRecord(i - 1)]

\* IndexedCache.__init__
NewCache ==
  [data |-> None, last_refresh_time |-> 0, is_refreshing |-> FALSE,
   last_modified_time |-> 0, access_count |-> 0, hit_count |-> 0, miss_count |-> 0,
   name_index |-> EmptyDict, location_index |-> EmptyDict,
   price_range_index |-> EmptyDict,
   availability_index |-> [b \in BOOLEAN |-> <<>>]]

Indexes(c) ==
  [name_index |-> c.name_index, location_index |-> c.location_index,
   price_range_index |-> c.price_range_index,
   availability_index |-> c.availability_index]
WithIndexes(c, ix) ==
  [c EXCEPT !.name_index = ix.name_index, !.location_index = ix.location_index,
            !.price_range_index = ix.price_range_index,
            !.availability_index = ix.availability_index]

\* is_cache_valid() without the modification-time test of lines 70-73
IsCacheValidByAgeOnly(c, f, t) ==
  IF t - c.last_refresh_time > CACHE_TTL THEN FALSE
  ELSE ~IsNone(c.data)

\* is_cache_valid(), evaluated on the cache c, the file f and the time t
IsCacheValid(c, f, t) ==
  IF t - c.last_refresh_time > CACHE_TTL THEN FALSE
  ELSE IF f.exists /\ f.mtime > c.last_modified_time THEN FALSE
  ELSE ~IsNone(c.data)

\* the same, with the statistics cleared as well
InvalidatedWithCounters(c) ==
  [c EXCEPT !.data = None, !.last_refresh_time = 0, !.last_modified_time = 0,
            !.access_count = 0, !.hit_count = 0, !.miss_count = 0]
\* invalidate_cache()
Invalidated(c) ==
  [c EXCEPT !.data = None, !.last_refresh_time = 0, !.last_modified_time = 0]

\* get_cache_stats (lines 76-85). hit_count / access_count * 100 is kept as the
\* fraction num / den; a division by zero raises, which is None here
Ratio(n, d) == [num |-> n, den |-> d]
HitRateUnguarded(c) ==
  IF c.access_count = 0 THEN None
  ELSE Some(Ratio(c.hit_count * 100, c.access_count))
HitRate(c) ==
  IF c.access_count # 0 THEN Some(Ratio(c.hit_count * 100, c.access_count))
  ELSE Some(Ratio(0, 1))
GetCacheStats(c, t) ==
  IF IsNone(HitRate(c)) THEN None
  ELSE Some([access_count |-> c.access_count,
             hit_count |-> c.hit_count,
             miss_count |-> c.miss_count,
             hit_rate_percentage |-> Get(HitRate(c)),
             last_refresh |->
               IF c.last_refresh_time > 0 THEN Some(c.last_refresh_time) ELSE None,
             age_seconds |->
               IF c.last_refresh_time > 0 THEN Some(t - c.last_refresh_time)
               ELSE None])

(***************************************************************************)
(* Requests.                                                               *)
(***************************************************************************)
NoBody ==
  [name |-> None, location |-> None, description |-> None, price_range |-> None,
   availability |-> None]
\* the locals of a handler; status 0 while it runs
NoRequest ==
  [op |-> "none", skip |-> DefaultSkip, limit |-> DefaultLimit, filters |-> NoFilters,
   bg |-> FALSE, force |-> FALSE, page |-> 1, page_size |-> 20, target |-> 0,
   body |-> NoBody, sched |-> FALSE, result_indexes |-> {}, items |-> <<>>,
   total_count |-> 0, to_write |-> <<>>, status |-> 0, returned |-> None,
   total_pages |-> 0, has_next_page |-> FALSE, has_prev_page |-> FALSE,
   \* history
   first_after_write |-> FALSE, write_seen |-> 0, start_snap |-> 0,
   start_expired |-> FALSE, used_snap |-> 0, used_version |-> 0, rebuilt |-> FALSE,
   start_failures |-> 0, used_epoch |-> 0, before |-> None, start_writes |-> 0,
   start_ticks |-> 0, refresh_calls |-> 0, absent |-> FALSE]

\* the same with skip = page * page_size
ListRequestSkipsAPage(page, page_size, filters, refresh) ==
  [NoRequest EXCEPT !.op = "list", !.page = page, !.page_size = page_size,
                    !.skip = page * page_size, !.limit = page_size,
                    !.filters = filters, !.bg = TRUE, !.force = refresh]
\* get_all_destinations (lines 193-213): skip = (page - 1) * page_size
ListRequest(page, page_size, filters, refresh) ==
  [NoRequest EXCEPT !.op = "list", !.page = page, !.page_size = page_size,
                    !.skip = (page - 1) * page_size, !.limit = page_size,
                    !.filters = filters, !.bg = TRUE, !.force = refresh]
\* get_destination (line 227)
GetRequest(id) == [NoRequest EXCEPT !.op = "get", !.target = id, !.bg = TRUE]
\* create_destination (line 242)
CreateRequest(body) == [NoRequest EXCEPT !.op = "create", !.body = body, !.force = TRUE]
\* update_destination (line 250)
UpdateRequest(id, body) ==
  [NoRequest EXCEPT !.op = "update", !.target = id, !.body = body, !.force = TRUE]
\* delete_destination (line 265)
DeleteRequest(id) == [NoRequest EXCEPT !.op = "delete", !.target = id, !.force = TRUE]

Oslo ==
  [NoBody EXCEPT !.name = Some(<<"O","s","l","o">>),
                 !.location = Some(<<"N","o","r","w","a","y">>),
                 !.description = Some("Fjords"), !.price_range = Some("luxury")]
Dearer == [NoBody EXCEPT !.price_range = Some("ultra_luxury")]
Closed ==
  [NoBody EXCEPT !.name = Some(<<"K","y","o","t","o">>), !.availability = Some(FALSE)]

\* the requests of the model
Requests ==
  {ListRequest(1, 20, [NoFilters EXCEPT !.price_range = Some("moderate")], FALSE),
   CreateRequest(Oslo),
   DeleteRequest(Tokyo.destination_id)}

\* the requests of SpecSeq
SeqRequests ==
  {ListRequest(1, 20, NoFilters, FALSE),
   GetRequest(Paris.destination_id),
   GetRequest(BulkId(DefaultLimit)),
   CreateRequest(Oslo),
   UpdateRequest(Paris.destination_id, Dearer),
   UpdateRequest(Tokyo.destination_id, Closed),
   UpdateRequest(BulkId(0), Dearer),
   DeleteRequest(Tokyo.destination_id),
   DeleteRequest(BulkId(DefaultLimit))}

\* the query parameters of GET /destinations/ asked in SpecQuery
PriceFilters == {None} \cup {Some(p) : p \in PriceRange}
AvailabilityFilters == {None, Some(TRUE), Some(FALSE)}
NameFilters ==
  {<<"n","e">>, <<"o","k">>, <<"p","a","r">>, <<"w"," ","y">>, <<"P","A","R","I","S">>,
   <<"n","e","w">>, <<"Y","o","r","k">>, <<"n","e","w"," ","t","o","k","y","o">>,
   <<"z","z","z">>}
LocationFilters == {<<"j","a","p","a","n">>, <<"I","n","d">>, <<"x">>}
PageSizes == {1, 2, 3, DefaultLimit}
QueryFilters ==
  {[NoFilters EXCEPT !.price_range = p, !.availability = a] :
     p \in PriceFilters, a \in AvailabilityFilters}
  \cup {[NoFilters EXCEPT !.name = Some(n)] : n \in NameFilters}
  \cup {[NoFilters EXCEPT !.name = Some(n), !.availability = Some(TRUE)] :
          n \in NameFilters}
  \cup {[NoFilters EXCEPT !.location = Some(l)] : l \in LocationFilters}
PagedFilters == {NoFilters, [NoFilters EXCEPT !.availability = Some(TRUE)]}
\* the requests of SpecQuery
QueryRequests ==
  {ListRequest(1, 20, f, FALSE) : f \in QueryFilters}
  \cup {ListRequest(page, size, f, FALSE) :
          page \in 1..MaxPage, size \in PageSizes, f \in PagedFilters}
  \cup {CreateRequest(Oslo), DeleteRequest(Tokyo.destination_id)}

\* Destination(**destination.dict()) with the id of a record of the store in
\* place of the uuid4() default
NewDestinationReusedId(body, id) ==
  Destination(Paris.destination_id, Get(body.name), Get(body.location),
              Get(body.description), Get(body.price_range),
              IF IsNone(body.availability) THEN TRUE ELSE Get(body.availability))
\* Destination(**destination.dict()): a new id, availability defaults to True
NewDestination(body, id) ==
  Destination(id, Get(body.name), Get(body.location), Get(body.description),
              Get(body.price_range),
              IF IsNone(body.availability) THEN TRUE ELSE Get(body.availability))
\* the same with the update left out: destination.copy()
UpdatedIgnoringBody(d, body) == d
\* destination.copy(update=destination_update.dict(exclude_unset=True))
Updated(d, body) ==
  [destination_id |-> d.destination_id,
   name |-> IF IsNone(body.name) THEN d.name ELSE Get(body.name),
   location |-> IF IsNone(body.location) THEN d.location ELSE Get(body.location),
   description |->
     IF IsNone(body.description) THEN d.description ELSE Get(body.description),
   price_range |->
     IF IsNone(body.price_range) THEN d.price_range ELSE Get(body.price_range),
   availability |->
     IF IsNone(body.availability) THEN d.availability ELSE Get(body.availability)]

\* the first position (1-based) of the list whose record has this id, 0 if none
FirstWithId(list, id) ==
  IF \E k \in DOMAIN list : list[k].destination_id = id
    THEN CHOOSE k \in DOMAIN list :
           /\ list[k].destination_id = id
           /\ \A j \in 1..(k - 1) : list[j].destination_id # id
    ELSE 0
\* del list[k]
Without(list, k) == SubSeq(list, 1, k - 1) \o SubSeq(list, k + 1, Len(list))

(***************************************************************************)
(* customers.py: CustomerDataManager (lines 25-192).  A customer is the    *)
(* dict kept in the index and in customers.json, with the keys the         *)
(* handlers look at: customer_id, name, email, and is_active, which is     *)
(* absent until a soft delete sets it.  phone, address and the three time  *)
(* stamps are carried along by the code and never compared.                *)
(***************************************************************************)
\* a UUID object, and the text str() makes of it: the two never compare equal
\* and hash apart, str() of a text is the text
Uuid(n) == [type |-> "UUID", hex |-> n]
Str(u) == [type |-> "str", hex |-> u.hex]

\* the customers and the booking of the tests; emails shortened to a local
\* part and a one-letter domain
JohnEmail == <<"j", ".", "d", "@", "x">>
JaneEmail == <<"j", ".", "s", "@", "x">>
JohnDoe ==
  [customer_id |-> Str(Uuid(3)), name |-> <<"J", "o", "h", "n">>,
   email |-> JohnEmail, is_active |-> None]
JaneSmith ==
  [customer_id |-> Str(Uuid(4)), name |-> <<"J", "a", "n", "e">>,
   email |-> JaneEmail, is_active |-> None]
JohnBooking == [booking_id |-> 1, customer_id |-> JohnDoe.customer_id]
JaneBooking == [booking_id |-> 2, customer_id |-> JaneSmith.customer_id]
\* uuid4() in create_customer (line 228): the k-th value drawn
FirstCustomerUuid == JaneSmith.customer_id.hex + 1
CustomerUuid(k) == Uuid(FirstCustomerUuid + k)

\* customers.json and bookings.json before the manager is constructed; content
\* None is a file json.load cannot parse
NoDataFile == [exists |-> FALSE, content |-> None]
NoBookingFile == [exists |-> FALSE, content |-> None]

\* _load_raw_customers (lines 45-50): [] when the file does not parse
load_raw_customers(data_file) ==
  IF IsNone(data_file.content) THEN <<>> ELSE Get(data_file.content)
\* _save_customers (lines 96-98): json.dump(default=str) writes a UUID as text
save_customers(customers) ==
  [exists |-> TRUE,
   content |-> Some([i \in DOMAIN customers |->
                       [customers[i] EXCEPT !.customer_id = Str(@)]])]
\* _ensure_data_file_exists (lines 32-36)
ensure_data_file_exists(data_file) ==
  IF data_file.exists THEN data_file ELSE [exists |-> TRUE, content |-> Some(<<>>)]
\* _build_customer_index (lines 38-43): keyed by the customer_id read from the
\* file; a later record with the same id replaces an earlier one
build_customer_index(customers) ==
  [k \in {customers[i].customer_id : i \in DOMAIN customers} |->
     customers[CHOOSE i \in DOMAIN customers :
                 /\ customers[i].customer_id = k
                 /\ \A j \in DOMAIN customers : customers[j].customer_id = k => j <= i]]
\* __init__ (lines 26-30), with the bookings file as it is found
CustomerDataManager(data_file, booking_file) ==
  [data_file |-> ensure_data_file_exists(data_file),
   customer_index |-> build_customer_index(load_raw_customers(data_file)),
   booking_file |-> booking_file]

\* get_all_customers (lines 52-53)
get_all_customers(m) == {m.customer_index[k] : k \in DOMAIN m.customer_index}
\* get_customer_by_id (lines 55-56): looked up under str(customer_id)
get_customer_by_id(m, customer_id) ==
  IF Str(customer_id) \in DOMAIN m.customer_index
    THEN Some(m.customer_index[Str(customer_id)])
    ELSE None
\* add_customer (lines 58-62): the index key is customer["customer_id"] as it
\* is in the dict handed over
add_customer(m, customer) ==
  [m EXCEPT !.data_file = save_customers(Append(load_raw_customers(m.data_file), customer)),
            !.customer_index = (customer.customer_id :> customer) @@ @]
\* the keys of updated_data that are set, written over those of customer
\* (lines 68-69)
Assigned(customer, updated_data) ==
  [customer EXCEPT
     !.name = IF IsNone(updated_data.name) THEN @ ELSE Get(updated_data.name),
     !.email = IF IsNone(updated_data.email) THEN @ ELSE Get(updated_data.email),
     !.is_active = IF IsNone(updated_data.is_active) THEN @ ELSE updated_data.is_active]
\* where update_customer finds the record (lines 66-67): the first match
FoundAt(customers, customer_id) ==
  LET found == {i \in DOMAIN customers : customers[i].customer_id = Str(customer_id)}
  IN  IF found = {} THEN 0 ELSE CHOOSE i \in found : \A j \in found : i <= j
\* update_customer (lines 64-74): the manager afterwards; it returns None and
\* changes nothing when the file has no such record
update_customer(m, customer_id, updated_data) ==
  LET customers == load_raw_customers(m.data_file)
      i == FoundAt(customers, customer_id)
  IN  IF i = 0
        THEN m
        ELSE LET customer == Assigned(customers[i], updated_data)
             IN  [m EXCEPT !.data_file = save_customers([customers EXCEPT ![i] = customer]),
                           !.customer_index = (Str(customer_id) :> customer) @@ @]
\* check_email_exists (lines 87-94)
check_email_exists(m, email, exclude_customer_id) ==
  \E customer_id \in DOMAIN m.customer_index :
    /\ Lower(m.customer_index[customer_id].email) = Lower(email)
    /\ ~(~IsNone(exclude_customer_id) /\ Str(Get(exclude_customer_id)) = customer_id)
\* get_customer_bookings (lines 100-117): [] when bookings.json is missing or
\* does not parse
get_customer_bookings(m, customer_id) ==
  IF ~m.booking_file.exists \/ IsNone(m.booking_file.content)
    THEN <<>>
    ELSE LET Mine(b) == b.customer_id = Str(customer_id)
         IN  SelectSeq(Get(m.booking_file.content), Mine)
\* soft_delete_customer (lines 119-130): the dict of the index is changed in
\* place, then written over the record of the file
soft_delete_customer(m, customer_id) ==
  LET customer == [m.customer_index[Str(customer_id)] EXCEPT !.is_active = Some(FALSE)]
      marked == [m EXCEPT !.customer_index[Str(customer_id)] = customer]
  IN  update_customer(marked, customer_id,
                      [name |-> Some(customer.name), email |-> Some(customer.email),
                       is_active |-> customer.is_active])
\* hard_delete_customer (lines 132-148): the manager afterwards; it returns
\* False and changes nothing when the file has no such record
hard_delete_customer(m, customer_id) ==
  LET customers == load_raw_customers(m.data_file)
      Others(c) == c.customer_id # Str(customer_id)
      remaining == SelectSeq(customers, Others)
  IN  IF Len(remaining) = Len(customers)
        THEN m
        ELSE [m EXCEPT !.data_file = save_customers(remaining),
                       !.customer_index =
                          [k \in DOMAIN @ \ {Str(customer_id)} |-> @[k]]]
\* cascade_delete_customer (lines 150-192): the customer's bookings are taken
\* out of bookings.json, then the customer is hard deleted
cascade_delete_customer(m, customer_id) ==
  LET bookings == get_customer_bookings(m, customer_id)
      Others(b) == b.customer_id # Str(customer_id)
      pruned ==
        IF bookings # <<>> /\ m.booking_file.exists
          THEN [m EXCEPT !.booking_file.content =
                           Some(SelectSeq(Get(m.booking_file.content), Others))]
          ELSE m
  IN  IF IsNone(get_customer_by_id(m, customer_id))
        THEN m
        ELSE hard_delete_customer(pruned, customer_id)

\* the answer of the last customer handler; status 0 before the first
NoReply(n) ==
  [op |-> "none", customer_id |-> Uuid(0), email |-> None, delete_type |-> "soft",
   force |-> FALSE, status |-> 0, requests_left |-> n]

(***************************************************************************)
(* Initial state: the module has just been imported.                       *)
(***************************************************************************)
NoFile == [exists |-> FALSE, content |-> None, mtime |-> 0]
InitWith(requests, ticks, writes) ==
  /\ cache = NewCache
  /\ file \in {NoFile, [exists |-> TRUE, content |-> Some(SeedContent), mtime |-> 1]}
  /\ now = StartTime
  /\ pc = [t \in Threads |-> "idle"]
  /\ loaded = [t \in Threads |-> None]
  /\ req = NoRequest
  /\ tasks = 0
  /\ uuids = 0
  /\ manager = CustomerDataManager(NoDataFile, NoBookingFile)
  /\ reply = NoReply(0)
  /\ hist = [requests_left |-> requests, ticks_left |-> ticks, writes_left |-> writes,
             snap |-> 0, snap_time |-> 0, data_version |-> 0,
             loaded_version |-> [t \in Threads |-> 0], write_version |-> 0,
             fresh_write |-> FALSE, failures |-> 0,
             loaded_epoch |-> [t \in Threads |-> 0], data_epoch |-> 0,
             after_read |-> FALSE]
Init == InitWith(MaxRequests, MaxTicks, MaxExtWrites)
InitLocal == InitWith(LocalRequests, LocalTicks, 0)
\* SpecSeq starts from any of: no file, the seed, a store of one record, an
\* unparseable file, the bulk store
InitSeq ==
  /\ cache = NewCache
  /\ file \in {NoFile,
               [exists |-> TRUE, content |-> Some(SeedContent), mtime |-> 1],
               [exists |-> TRUE, content |-> Some(<<Tokyo>>), mtime |-> 1],
               [exists |-> TRUE, content |-> None, mtime |-> 1],
               [exists |-> TRUE, content |-> Some(BulkContent), mtime |-> 1]}
  /\ now = StartTime
  /\ pc = [t \in Threads |-> "idle"]
  /\ loaded = [t \in Threads |-> None]
  /\ req = NoRequest
  /\ tasks = 0
  /\ uuids = 0
  /\ manager = CustomerDataManager(NoDataFile, NoBookingFile)
  /\ reply = NoReply(0)
  /\ hist = [requests_left |-> SeqRequestCount, ticks_left |-> 0, writes_left |-> 0,
             snap |-> 0, snap_time |-> 0, data_version |-> 0,
             loaded_version |-> [t \in Threads |-> 0], write_version |-> 0,
             fresh_write |-> FALSE, failures |-> 0,
             loaded_epoch |-> [t \in Threads |-> 0], data_epoch |-> 0,
             after_read |-> FALSE]
\* SpecQuery starts from any of: no file, the query store, a store of one
\* record, an unparseable file
InitQuery ==
  /\ cache = NewCache
  /\ file \in {NoFile,
               [exists |-> TRUE, content |-> Some(QueryContent), mtime |-> 1],
               [exists |-> TRUE, content |-> Some(<<Tokyo>>), mtime |-> 1],
               [exists |-> TRUE, content |-> None, mtime |-> 1]}
  /\ now = StartTime
  /\ pc = [t \in Threads |-> "idle"]
  /\ loaded = [t \in Threads |-> None]
  /\ req = NoRequest
  /\ tasks = 0
  /\ uuids = 0
  /\ manager = CustomerDataManager(NoDataFile, NoBookingFile)
  /\ reply = NoReply(0)
  /\ hist = [requests_left |-> QueryRequestCount, ticks_left |-> 0, writes_left |-> 0,
             snap |-> 0, snap_time |-> 0, data_version |-> 0,
             loaded_version |-> [t \in Threads |-> 0], write_version |-> 0,
             fresh_write |-> FALSE, failures |-> 0,
             loaded_epoch |-> [t \in Threads |-> 0], data_epoch |-> 0,
             after_read |-> FALSE]
InitCore == InitWith(CoreRequests, CoreTicks, MaxExtWrites)

(***************************************************************************)
(* refresh_cache (lines 91-113), one action per shared read or write.      *)
(* Thread t is at "rf_check" when it has called refresh_cache.             *)
(***************************************************************************)
\* where refresh_cache returns to: read_destinations line 139, or the task ends
AfterRefresh(t) == IF t = EventLoop THEN "rd_none" ELSE "idle"
\* the positions between the two writes of is_refreshing
RebuildBody ==
  {"rf_open", "rf_assign", "rf_build", "rf_time", "rf_mtime", "rf_except",
   "rf_finally", "rf_finally_err"}
Rebuilding(t) == pc[t] \in RebuildBody

\* the guard of line 92 placed inside the try: the finally of lines 112-113
\* then runs on the early return too
RefreshCheckInsideTry(t) ==
  /\ pc[t] = "rf_check"
  /\ pc' = [pc EXCEPT ![t] = IF cache.is_refreshing THEN AfterRefresh(t) ELSE "rf_set"]
  /\ cache' = [cache EXCEPT !.is_refreshing = IF @ THEN FALSE ELSE @]
  /\ UNCHANGED <<file, now, loaded, req, tasks, uuids, hist, manager, reply>>

\* line 92: if _cache.is_refreshing: return
RefreshCheck(t) ==
  /\ pc[t] = "rf_check"
  /\ pc' = [pc EXCEPT ![t] = IF cache.is_refreshing THEN AfterRefresh(t) ELSE "rf_set"]
  /\ UNCHANGED <<cache, file, now, loaded, req, tasks, uuids, hist, manager, reply>>

\* line 95: _cache.is_refreshing = True
RefreshSet(t) ==
  /\ pc[t] = "rf_set"
  /\ cache' = [cache EXCEPT !.is_refreshing = TRUE]
  /\ pc' = [pc EXCEPT ![t] = "rf_open"]
  /\ UNCHANGED <<file, now, loaded, req, tasks, uuids, hist, manager, reply>>

\* the same with a missing file treated like an unparseable one
RefreshOpenAbsentFails(t) ==
  /\ pc[t] = "rf_open"
  /\ IF ~file.exists \/ IsNone(file.content)
       THEN /\ pc' = [pc EXCEPT ![t] = "rf_except"]
            /\ UNCHANGED <<file, loaded, hist>>
       ELSE /\ loaded' = [loaded EXCEPT ![t] = file.content]
            /\ hist' = [hist EXCEPT !.loaded_version[t] = file.mtime,
                                    !.loaded_epoch[t] = hist.failures]
            /\ pc' = [pc EXCEPT ![t] = "rf_assign"]
            /\ UNCHANGED file
  /\ UNCHANGED <<cache, now, req, tasks, uuids, manager, reply>>

\* lines 96-102: create the missing file, or open, load and parse it
RefreshOpen(t) ==
  /\ pc[t] = "rf_open"
  /\ IF ~file.exists
       THEN /\ file' = [exists |-> TRUE, content |-> Some(<<>>), mtime |-> file.mtime + 1]
            /\ loaded' = [loaded EXCEPT ![t] = Some(<<>>)]
            /\ hist' = [hist EXCEPT !.loaded_version[t] = file.mtime + 1,
                                    !.loaded_epoch[t] = hist.failures]
            /\ pc' = [pc EXCEPT ![t] = "rf_assign"]
       ELSE IF IsNone(file.content)
         THEN /\ pc' = [pc EXCEPT ![t] = "rf_except"]
              /\ UNCHANGED <<file, loaded, hist>>
         ELSE /\ loaded' = [loaded EXCEPT ![t] = file.content]
              /\ hist' = [hist EXCEPT !.loaded_version[t] = file.mtime,
                                      !.loaded_epoch[t] = hist.failures]
              /\ pc' = [pc EXCEPT ![t] = "rf_assign"]
              /\ UNCHANGED file
  /\ UNCHANGED <<cache, now, req, tasks, uuids, manager, reply>>

\* lines 99, 102: _cache.data = ...
RefreshAssign(t) ==
  /\ pc[t] = "rf_assign"
  /\ cache' = [cache EXCEPT !.data = loaded[t]]
  /\ loaded' = [loaded EXCEPT ![t] = None]
  /\ hist' = [hist EXCEPT !.snap = @ + 1, !.snap_time = now,
                          !.data_version = hist.loaded_version[t],
                          !.data_epoch = hist.loaded_epoch[t],
                          !.loaded_version[t] = 0, !.loaded_epoch[t] = 0]
  /\ req' = IF t = EventLoop THEN [req EXCEPT !.rebuilt = TRUE] ELSE req
  /\ pc' = [pc EXCEPT ![t] = "rf_build"]
  /\ UNCHANGED <<file, now, tasks, uuids, manager, reply>>

\* line 103: _cache.build_indexes()
RefreshBuild(t) ==
  /\ pc[t] = "rf_build"
  /\ cache' = WithIndexes(cache, BuildIndexes(Indexes(cache), cache.data))
  /\ pc' = [pc EXCEPT ![t] = "rf_time"]
  /\ UNCHANGED <<file, now, loaded, req, tasks, uuids, hist, manager, reply>>

\* line 104: _cache.last_refresh_time = time.time()
RefreshTime(t) ==
  /\ pc[t] = "rf_time"
  /\ cache' = [cache EXCEPT !.last_refresh_time = now]
  /\ pc' = [pc EXCEPT ![t] = "rf_mtime"]
  /\ UNCHANGED <<file, now, loaded, req, tasks, uuids, hist, manager, reply>>

\* line 105: _cache.last_modified_time = os.path.getmtime(DATA_FILE)
RefreshMtime(t) ==
  /\ pc[t] = "rf_mtime"
  /\ cache' = [cache EXCEPT !.last_modified_time = file.mtime]
  /\ pc' = [pc EXCEPT ![t] = "rf_finally"]
  /\ UNCHANGED <<file, now, loaded, req, tasks, uuids, hist, manager, reply>>

\* lines 106-107: except Exception: _cache.data = None (the raise follows finally)
RefreshExcept(t) ==
  /\ pc[t] = "rf_except"
  /\ cache' = [cache EXCEPT !.data = None]
  /\ hist' = [hist EXCEPT !.data_version = 0, !.failures = @ + 1]
  /\ pc' = [pc EXCEPT ![t] = "rf_finally_err"]
  /\ UNCHANGED <<file, now, loaded, req, tasks, uuids, manager, reply>>

\* the release of the flag as the last statement of the try instead of in a
\* finally: the exception path skips it
RefreshReleaseInTry(t) ==
  /\ pc[t] \in {"rf_finally", "rf_finally_err"}
  /\ cache' = [cache EXCEPT !.is_refreshing = IF pc[t] = "rf_finally_err" THEN @ ELSE FALSE]
  /\ IF pc[t] = "rf_finally_err" /\ t = EventLoop
       THEN /\ req' = [req EXCEPT !.status = 500]
            /\ pc' = [pc EXCEPT ![t] = "done"]
       ELSE /\ req' = req
            /\ pc' = [pc EXCEPT ![t] = AfterRefresh(t)]
  /\ UNCHANGED <<file, now, loaded, tasks, uuids, hist, manager, reply>>

\* lines 112-113: finally: _cache.is_refreshing = False; then return, or the
\* HTTPException of line 108 leaves read_destinations and the handler
RefreshFinally(t) ==
  /\ pc[t] \in {"rf_finally", "rf_finally_err"}
  /\ cache' = [cache EXCEPT !.is_refreshing = FALSE]
  /\ IF pc[t] = "rf_finally_err" /\ t = EventLoop
       THEN /\ req' = [req EXCEPT !.status = 500]
            /\ pc' = [pc EXCEPT ![t] = "done"]
       ELSE /\ req' = req
            /\ pc' = [pc EXCEPT ![t] = AfterRefresh(t)]
  /\ UNCHANGED <<file, now, loaded, tasks, uuids, hist, manager, reply>>

(***************************************************************************)
(* The route handlers, on the event loop: read_destinations (lines         *)
(* 120-175), the handler's own lines, write_destinations (lines 177-186).  *)
(***************************************************************************)
Mutations == {"create", "update", "delete"}
Failed(st) == [req EXCEPT !.status = st]

\* a handler is called and runs up to line 130: _cache.access_count += 1
StartRequest(r) ==
  /\ pc[EventLoop] = "idle"
  /\ hist.requests_left > 0
  /\ cache' = [cache EXCEPT !.access_count = @ + 1]
  /\ req' = [r EXCEPT !.first_after_write = hist.fresh_write,
                      !.write_seen = hist.write_version,
                      !.start_snap = hist.snap,
                      !.start_expired =
                         /\ ~IsNone(cache.data)
                         /\ now - cache.last_refresh_time > CACHE_TTL
                         /\ now - hist.snap_time > CACHE_TTL,
                      !.start_failures = hist.failures,
                      !.before = file.content,
                      !.start_writes = hist.writes_left,
                      !.start_ticks = hist.ticks_left,
                      !.absent = ~file.exists]
  /\ hist' = [hist EXCEPT !.requests_left = @ - 1, !.fresh_write = FALSE]
  /\ pc' = [pc EXCEPT ![EventLoop] = "rd_check"]
  /\ UNCHANGED <<file, now, loaded, tasks, uuids, manager, reply>>

\* lines 131-137 with "if not is_cache_valid()": force_refresh is not looked at
ReadCheckIgnoresForce ==
  /\ pc[EventLoop] = "rd_check"
  /\ IF ~IsCacheValid(cache, file, now)
       THEN /\ cache' = [cache EXCEPT !.miss_count = @ + 1]
            /\ req' = [req EXCEPT !.refresh_calls = @ + 1]
            /\ pc' = [pc EXCEPT ![EventLoop] = "rf_check"]
       ELSE /\ cache' = [cache EXCEPT !.hit_count = @ + 1]
            /\ req' = [req EXCEPT !.sched =
                         req.bg /\ now - cache.last_refresh_time > RefreshAge]
            /\ pc' = [pc EXCEPT ![EventLoop] = "rd_none"]
  /\ UNCHANGED <<file, now, loaded, tasks, uuids, hist, manager, reply>>

\* lines 131-137 with the counter chosen by is_cache_valid() alone: a forced
\* read of a valid cache rebuilds but counts as a hit
ReadCheckCountsByValidity ==
  /\ pc[EventLoop] = "rd_check"
  /\ cache' = IF IsCacheValid(cache, file, now)
                THEN [cache EXCEPT !.hit_count = @ + 1]
                ELSE [cache EXCEPT !.miss_count = @ + 1]
  /\ IF req.force \/ ~IsCacheValid(cache, file, now)
       THEN /\ req' = [req EXCEPT !.refresh_calls = @ + 1]
            /\ pc' = [pc EXCEPT ![EventLoop] = "rf_check"]
       ELSE /\ req' = [req EXCEPT !.sched =
                         req.bg /\ now - cache.last_refresh_time > RefreshAge]
            /\ pc' = [pc EXCEPT ![EventLoop] = "rd_none"]
  /\ UNCHANGED <<file, now, loaded, tasks, uuids, hist, manager, reply>>

\* the same with refresh_cache() called by the hit itself when the snapshot is
\* old, instead of added as a task
ReadCheckRefreshesInline ==
  /\ pc[EventLoop] = "rd_check"
  /\ IF req.force \/ ~IsCacheValid(cache, file, now)
       THEN /\ cache' = [cache EXCEPT !.miss_count = @ + 1]
            /\ req' = [req EXCEPT !.refresh_calls = @ + 1]
            /\ pc' = [pc EXCEPT ![EventLoop] = "rf_check"]
       ELSE /\ cache' = [cache EXCEPT !.hit_count = @ + 1]
            /\ req' = [req EXCEPT !.sched =
                         req.bg /\ now - cache.last_refresh_time > RefreshAge]
            /\ pc' = [pc EXCEPT ![EventLoop] =
                        IF req.bg /\ now - cache.last_refresh_time > RefreshAge
                          THEN "rf_check" ELSE "rd_none"]
  /\ UNCHANGED <<file, now, loaded, tasks, uuids, hist, manager, reply>>

\* lines 131-137 with a forced refresh that is not counted as a miss
ReadCheckForcedUncounted ==
  /\ pc[EventLoop] = "rd_check"
  /\ IF req.force \/ ~IsCacheValid(cache, file, now)
       THEN /\ cache' = IF req.force THEN cache ELSE [cache EXCEPT !.miss_count = @ + 1]
            /\ req' = [req EXCEPT !.refresh_calls = @ + 1]
            /\ pc' = [pc EXCEPT ![EventLoop] = "rf_check"]
       ELSE /\ cache' = [cache EXCEPT !.hit_count = @ + 1]
            /\ req' = [req EXCEPT !.sched =
                         req.bg /\ now - cache.last_refresh_time > RefreshAge]
            /\ pc' = [pc EXCEPT ![EventLoop] = "rd_none"]
  /\ UNCHANGED <<file, now, loaded, tasks, uuids, hist, manager, reply>>

\* lines 131-137: miss (and call refresh_cache) or hit (and maybe add the task)
ReadCheck ==
  /\ pc[EventLoop] = "rd_check"
  /\ IF req.force \/ ~IsCacheValid(cache, file, now)
       THEN /\ cache' = [cache EXCEPT !.miss_count = @ + 1]
            /\ req' = [req EXCEPT !.refresh_calls = @ + 1]
            /\ pc' = [pc EXCEPT ![EventLoop] = "rf_check"]
       ELSE /\ cache' = [cache EXCEPT !.hit_count = @ + 1]
            /\ req' = [req EXCEPT !.sched =
                         req.bg /\ now - cache.last_refresh_time > RefreshAge]
            /\ pc' = [pc EXCEPT ![EventLoop] = "rd_none"]
  /\ UNCHANGED <<file, now, loaded, tasks, uuids, hist, manager, reply>>

\* lines 139-145: the None test, then set(range(len(_cache.data)))
ReadNone ==
  /\ pc[EventLoop] = "rd_none"
  /\ IF IsNone(cache.data)
       THEN /\ req' = Failed(500)
            /\ pc' = [pc EXCEPT ![EventLoop] = "done"]
       ELSE /\ req' = [req EXCEPT !.result_indexes = AllPositions(Get(cache.data)),
                                  !.used_snap = hist.snap,
                                  !.used_version = hist.data_version,
                                  !.used_epoch = hist.data_epoch]
            /\ pc' = [pc EXCEPT ![EventLoop] = "rd_filter"]
  /\ UNCHANGED <<cache, file, now, loaded, tasks, uuids, hist, manager, reply>>

\* lines 147-167: the filters; a fallback scan of a None _cache.data raises
\* lines 147-167 with "_cache.price_range_index[price_range_filter]": a tier
\* that is no key of the index raises
ReadFilterKeyError ==
  /\ pc[EventLoop] = "rd_filter"
  /\ IF \/ IsNone(cache.data) /\ ScansData(Indexes(cache), req.filters)
        \/ /\ PriceGiven(req.filters)
           /\ Get(req.filters.price_range) \notin DOMAIN cache.price_range_index
       THEN /\ req' = Failed(500)
            /\ pc' = [pc EXCEPT ![EventLoop] = "done"]
       ELSE /\ req' = [req EXCEPT !.result_indexes =
                         FilterPositions(req.result_indexes, Indexes(cache),
                                         IF IsNone(cache.data) THEN <<>>
                                         ELSE Get(cache.data),
                                         req.filters)]
            /\ pc' = [pc EXCEPT ![EventLoop] = "rd_slice"]
  /\ UNCHANGED <<cache, file, now, loaded, tasks, uuids, hist, manager, reply>>

\* lines 147-167: the filters, in the order name, location, price, availability
ReadFilter ==
  /\ pc[EventLoop] = "rd_filter"
  /\ IF IsNone(cache.data) /\ ScansData(Indexes(cache), req.filters)
       THEN /\ req' = Failed(500)
            /\ pc' = [pc EXCEPT ![EventLoop] = "done"]
       ELSE /\ req' = [req EXCEPT !.result_indexes =
                         FilterPositions(req.result_indexes, Indexes(cache),
                                         IF IsNone(cache.data) THEN <<>>
                                         ELSE Get(cache.data),
                                         req.filters)]
            /\ pc' = [pc EXCEPT ![EventLoop] = "rd_slice"]
  /\ UNCHANGED <<cache, file, now, loaded, tasks, uuids, hist, manager, reply>>

\* lines 169-175 with "_cache.data.sort(key=...)" when every position matched:
\* the cached list is sorted in place
ReadSliceSortsInPlace ==
  /\ pc[EventLoop] = "rd_slice"
  /\ IF /\ req.result_indexes # {}
        /\ \/ IsNone(cache.data)
           \/ \E i \in req.result_indexes : i >= Len(Get(cache.data))
       THEN /\ req' = Failed(500)
            /\ pc' = [pc EXCEPT ![EventLoop] = "done"]
            /\ cache' = cache
       ELSE LET data == IF IsNone(cache.data) THEN <<>> ELSE Get(cache.data)
                sorted == SortByName(Materialize(data, req.result_indexes))
            IN  /\ req' = [req EXCEPT !.items = Slice(sorted, req.skip, req.limit),
                                      !.total_count = Len(sorted),
                                      !.used_snap =
                                         IF IsNone(cache.data) THEN @ ELSE hist.snap,
                                      !.used_version =
                                         IF IsNone(cache.data) THEN @
                                         ELSE hist.data_version,
                                      !.used_epoch =
                                         IF IsNone(cache.data) THEN @
                                         ELSE hist.data_epoch]
                /\ cache' = IF ~IsNone(cache.data) /\ Len(sorted) = Len(data)
                              THEN [cache EXCEPT !.data = Some(sorted)] ELSE cache
                /\ pc' = [pc EXCEPT ![EventLoop] = "h_body"]
  /\ UNCHANGED <<file, now, loaded, tasks, uuids, hist, manager, reply>>

\* lines 169-175: materialize, sort, count, slice; _cache.data[i] raises on a
\* None _cache.data and on a position beyond its end
ReadSlice ==
  /\ pc[EventLoop] = "rd_slice"
  /\ IF /\ req.result_indexes # {}
        /\ \/ IsNone(cache.data)
           \/ \E i \in req.result_indexes : i >= Len(Get(cache.data))
       THEN /\ req' = Failed(500)
            /\ pc' = [pc EXCEPT ![EventLoop] = "done"]
       ELSE LET data == IF IsNone(cache.data) THEN <<>> ELSE Get(cache.data)
                sorted == SortByName(Materialize(data, req.result_indexes))
            IN  /\ req' = [req EXCEPT !.items = Slice(sorted, req.skip, req.limit),
                                      !.total_count = Len(sorted),
                                      !.used_snap =
                                         IF IsNone(cache.data) THEN @ ELSE hist.snap,
                                      !.used_version =
                                         IF IsNone(cache.data) THEN @
                                         ELSE hist.data_version,
                                      !.used_epoch =
                                         IF IsNone(cache.data) THEN @
                                         ELSE hist.data_epoch]
                /\ pc' = [pc EXCEPT ![EventLoop] = "h_body"]
  /\ UNCHANGED <<cache, file, now, loaded, tasks, uuids, hist, manager, reply>>

\* the same with total_count // page_size for total_pages
ListBodyFloorPages ==
  [req EXCEPT !.status = 200,
              !.total_pages = req.total_count \div req.page_size,
              !.has_next_page = (req.page < req.total_count \div req.page_size),
              !.has_prev_page = (req.page > 1)]
\* the same with has_next_page = (page <= total_pages)
ListBodyNextInclusive ==
  [req EXCEPT !.status = 200,
              !.total_pages = (req.total_count + req.page_size - 1) \div req.page_size,
              !.has_next_page =
                 (req.page <= (req.total_count + req.page_size - 1) \div req.page_size),
              !.has_prev_page = (req.page > 1)]
\* get_all_destinations, lines 214-223
ListBody ==
  [req EXCEPT !.status = 200,
              !.total_pages = (req.total_count + req.page_size - 1) \div req.page_size,
              !.has_next_page =
                 (req.page < (req.total_count + req.page_size - 1) \div req.page_size),
              !.has_prev_page = (req.page > 1)]
\* get_destination, lines 228-238
GetBody ==
  LET k == FirstWithId(req.items, req.target)
  IN  IF k = 0 THEN Failed(404)
      ELSE [req EXCEPT !.status = 200, !.returned = Some(req.items[k])]
\* create_destination, lines 243-244
CreateBody ==
  LET new == NewDestination(req.body, FirstUuid + uuids)
  IN  [req EXCEPT !.to_write = Append(req.items, new), !.returned = Some(new)]
\* update_destination, lines 251-255 and 258
UpdateBody ==
  LET k == FirstWithId(req.items, req.target)
  IN  IF k = 0 THEN Failed(404)
      ELSE [req EXCEPT !.to_write = [req.items EXCEPT ![k] = Updated(@, req.body)],
                       !.returned = Some(Updated(req.items[k], req.body))]
\* delete_destination, lines 266-268 and 271
DeleteBody ==
  LET k == FirstWithId(req.items, req.target)
  IN  IF k = 0 THEN Failed(404) ELSE [req EXCEPT !.to_write = Without(req.items, k)]

\* the handler's lines after read_destinations has returned
HandlerBody ==
  /\ pc[EventLoop] = "h_body"
  /\ req' = CASE req.op = "list" -> ListBody
              [] req.op = "get" -> GetBody
              [] req.op = "create" -> CreateBody
              [] req.op = "update" -> UpdateBody
              [] req.op = "delete" -> DeleteBody
  /\ uuids' = IF req.op = "create" THEN uuids + 1 ELSE uuids
  /\ pc' = [pc EXCEPT ![EventLoop] =
              IF req.op \in Mutations /\ req'.status = 0 THEN "wr_open" ELSE "done"]
  /\ UNCHANGED <<cache, file, now, loaded, tasks, hist, manager, reply>>

\* line 179: open(DATA_FILE, "w") truncates the file
WriteOpen ==
  /\ pc[EventLoop] = "wr_open"
  /\ file' = [exists |-> TRUE, content |-> None, mtime |-> file.mtime + 1]
  /\ pc' = [pc EXCEPT ![EventLoop] = "wr_dump"]
  /\ UNCHANGED <<cache, now, loaded, req, tasks, uuids, hist, manager, reply>>

\* line 180: json.dump of the whole list, and the file is closed
WriteDump ==
  /\ pc[EventLoop] = "wr_dump"
  /\ file' = [exists |-> TRUE, content |-> Some(req.to_write), mtime |-> file.mtime + 1]
  /\ hist' = [hist EXCEPT !.write_version = file.mtime + 1]
  /\ pc' = [pc EXCEPT ![EventLoop] = "wr_inval"]
  /\ UNCHANGED <<cache, now, loaded, req, tasks, uuids, manager, reply>>

\* lines 178-186 with invalidate_cache() in a "finally": open() raises, the
\* cache is invalidated all the same
WriteOpenFailsInvalidates ==
  /\ pc[EventLoop] = "wr_open"
  /\ cache' = Invalidated(cache)
  /\ req' = Failed(500)
  /\ pc' = [pc EXCEPT ![EventLoop] = "done"]
  /\ UNCHANGED <<file, now, loaded, tasks, uuids, hist, manager, reply>>

\* line 179 raises (the file cannot be opened for writing): lines 182-186
\* answer 500, the file is as it was and line 181 is not reached
WriteOpenFails ==
  /\ pc[EventLoop] = "wr_open"
  /\ req' = Failed(500)
  /\ pc' = [pc EXCEPT ![EventLoop] = "done"]
  /\ UNCHANGED <<cache, file, now, loaded, tasks, uuids, hist, manager, reply>>

\* line 180 raises (the device is full): the file stays as open() has
\* truncated it and what was written of the list does not parse; lines
\* 182-186 answer 500 and line 181 is not reached
WriteDumpFails ==
  /\ pc[EventLoop] = "wr_dump"
  /\ req' = Failed(500)
  /\ pc' = [pc EXCEPT ![EventLoop] = "done"]
  /\ UNCHANGED <<cache, file, now, loaded, tasks, uuids, hist, manager, reply>>

\* line 181: invalidate_cache(); the handler returns 201, 200 or 204
WriteInvalidate ==
  /\ pc[EventLoop] = "wr_inval"
  /\ cache' = Invalidated(cache)
  /\ hist' = [hist EXCEPT !.data_version = 0]
  /\ req' = [req EXCEPT !.status = CASE req.op = "create" -> 201
                                     [] req.op = "update" -> 200
                                     [] req.op = "delete" -> 204]
  /\ pc' = [pc EXCEPT ![EventLoop] = "done"]
  /\ UNCHANGED <<file, now, loaded, tasks, uuids, manager, reply>>

\* get_destinations_cache_stats (lines 188-190): no read_destinations call
CacheStats ==
  /\ pc[EventLoop] = "idle"
  /\ hist.requests_left > 0
  /\ req' = [NoRequest EXCEPT !.op = "stats",
                              !.status = IF IsNone(GetCacheStats(cache, now))
                                           THEN 500 ELSE 200,
                              !.returned = GetCacheStats(cache, now)]
  /\ hist' = [hist EXCEPT !.requests_left = @ - 1]
  /\ pc' = [pc EXCEPT ![EventLoop] = "done"]
  /\ UNCHANGED <<cache, file, now, loaded, tasks, uuids, manager, reply>>

\* the response is sent; a task added by a request that raised is dropped
Succeeded == req.status \in {200, 201, 204}
Respond ==
  /\ pc[EventLoop] = "done"
  /\ tasks' = IF req.sched /\ Succeeded THEN tasks + 1 ELSE tasks
  /\ hist' = [hist EXCEPT !.fresh_write =
                            IF req.op \in Mutations /\ Succeeded THEN TRUE ELSE @,
                          !.after_read =
                            /\ req.op # "stats"
                            /\ ~req.force
                            /\ Succeeded
                            /\ req.start_writes = hist.writes_left
                            /\ req.start_ticks = hist.ticks_left]
  /\ req' = NoRequest
  /\ pc' = [pc EXCEPT ![EventLoop] = "idle"]
  /\ UNCHANGED <<cache, file, now, loaded, uuids, manager, reply>>

(***************************************************************************)
(* The thread pool, the clock and the other writers of the file.           *)
(***************************************************************************)
\* a pool thread takes a background task: it calls refresh_cache()
WorkerStart(t) ==
  /\ t \in Workers
  /\ pc[t] = "idle"
  /\ tasks > 0
  /\ tasks' = tasks - 1
  /\ pc' = [pc EXCEPT ![t] = "rf_check"]
  /\ UNCHANGED <<cache, file, now, loaded, req, uuids, hist, manager, reply>>

Tick(d) ==
  /\ hist.ticks_left > 0
  /\ now' = now + d
  /\ hist' = [hist EXCEPT !.ticks_left = @ - 1, !.after_read = FALSE]
  /\ UNCHANGED <<cache, file, pc, loaded, req, tasks, uuids, manager, reply>>

\* another process replaces the file
ExternalWrite(c) ==
  /\ hist.writes_left > 0
  /\ file' = [exists |-> TRUE, content |-> c, mtime |-> file.mtime + 1]
  /\ hist' = [hist EXCEPT !.writes_left = @ - 1, !.after_read = FALSE]
  /\ UNCHANGED <<cache, now, pc, loaded, req, tasks, uuids, manager, reply>>

\* the steps of refresh_cache in thread t
RefreshStep(t) ==
  \/ RefreshCheck(t)
  \/ RefreshSet(t)
  \/ RefreshOpen(t)
  \/ RefreshAssign(t)
  \/ RefreshBuild(t)
  \/ RefreshTime(t)
  \/ RefreshMtime(t)
  \/ RefreshExcept(t)
  \/ RefreshFinally(t)

\* the steps of the process
ProgramStep ==
  \/ \E r \in Requests : StartRequest(r)
  \/ ReadCheck
  \/ ReadNone
  \/ ReadFilter
  \/ ReadSlice
  \/ HandlerBody
  \/ WriteOpen
  \/ WriteDump
  \/ WriteInvalidate
  \/ Respond
  \/ \E t \in Threads : RefreshStep(t)
  \/ \E t \in Workers : WorkerStart(t)

(***************************************************************************)
(* customers.py: the handlers (lines 215-378).  Each is an "async def"     *)
(* without an await: it runs on the event loop from its first line to its  *)
(* last with nothing in between.                                           *)
(***************************************************************************)
CustomerRequestCount == 3
\* the bodies and paths the handlers are called with, as pydantic lets them
\* through: EmailStr keeps the case of the local part, a name has at least
\* one character
ShoutedJohnEmail == <<"J", ".", "D", "@", "x">>
AnnEmail == <<"a", "@", "x">>
ShoutedAnnEmail == <<"A", "@", "x">>
CustomerEmails == {ShoutedJohnEmail, JaneEmail, AnnEmail, ShoutedAnnEmail}
Ann == <<"A", "n", "n">>
Blank == <<" ">>
CustomerCreates == [name : {Ann}, email : CustomerEmails]
CustomerUpdates ==
  [name : {None, Some(Ann), Some(Blank)},
   email : {None} \cup {Some(e) : e \in CustomerEmails}]
CustomerPaths ==
  {Uuid(JohnDoe.customer_id.hex), Uuid(JaneSmith.customer_id.hex),
   CustomerUuid(0), CustomerUuid(1)}
DeleteTypes == {"soft", "hard", "cascade"}

\* name.strip() (line 277)
Strip(s) ==
  LET kept == {i \in DOMAIN s : s[i] # " "}
  IN  IF kept = {} THEN <<>>
      ELSE SubSeq(s, CHOOSE i \in kept : \A j \in kept : i <= j,
                     CHOOSE i \in kept : \A j \in kept : j <= i)
Answer(op, customer_id, email, delete_type, force, st) ==
  [op |-> op, customer_id |-> customer_id, email |-> email,
   delete_type |-> delete_type, force |-> force, status |-> st,
   requests_left |-> reply.requests_left - 1]

\* create_customer (lines 215-234)
CreateCustomer(customer) ==
  /\ pc[EventLoop] = "idle"
  /\ reply.requests_left > 0
  /\ IF check_email_exists(manager, customer.email, None)
       THEN /\ reply' = Answer("create", Uuid(0), Some(customer.email), "soft", FALSE, 400)
            /\ UNCHANGED <<manager, uuids>>
       ELSE /\ manager' = add_customer(manager,
                            [customer_id |-> CustomerUuid(uuids), name |-> customer.name,
                             email |-> customer.email, is_active |-> None])
            /\ uuids' = uuids + 1
            /\ reply' = Answer("create", CustomerUuid(uuids), Some(customer.email),
                               "soft", FALSE, 201)
  /\ UNCHANGED <<cache, file, now, pc, loaded, req, tasks, hist>>

\* update_customer (lines 263-267): validation_errors["email"] is set
EmailConflict(m, existing_customer, customer_id, customer_update) ==
  /\ ~IsNone(customer_update.email)
  /\ Lower(existing_customer.email) # Lower(Get(customer_update.email))
  /\ check_email_exists(m, Get(customer_update.email), Some(customer_id))
\* update_customer (lines 275-280): validation_errors["name"] is set
NameInvalid(customer_update) ==
  /\ ~IsNone(customer_update.name)
  /\ \/ Len(Strip(Get(customer_update.name))) < 1
     \/ Len(Get(customer_update.name)) > 100

\* update_customer (lines 236-299); a None from the data manager does not pass
\* the response model
UpdateCustomer(customer_id, customer_update) ==
  /\ pc[EventLoop] = "idle"
  /\ reply.requests_left > 0
  /\ LET existing_customer == get_customer_by_id(manager, customer_id)
         Answered(st) == Answer("update", customer_id, customer_update.email, "soft", FALSE, st)
     IN  IF IsNone(existing_customer)
           THEN reply' = Answered(404) /\ manager' = manager
         ELSE IF IsNone(customer_update.name) /\ IsNone(customer_update.email)
           THEN reply' = Answered(400) /\ manager' = manager
         ELSE IF \/ EmailConflict(manager, Get(existing_customer), customer_id, customer_update)
                 \/ NameInvalid(customer_update)
           THEN reply' = Answered(400) /\ manager' = manager
         ELSE /\ manager' = update_customer(manager, customer_id,
                              [name |-> customer_update.name, email |-> customer_update.email,
                               is_active |-> None])
              /\ reply' = Answered(IF FoundAt(load_raw_customers(manager.data_file),
                                              customer_id) = 0
                                     THEN 500 ELSE 200)
  /\ UNCHANGED <<cache, file, now, pc, loaded, req, tasks, uuids, hist>>

\* delete_customer (line 327)
HasConflict(bookings, delete_type, force) ==
  bookings # <<>> /\ ~force /\ delete_type # "soft"

\* delete_customer (lines 309-378)
DeleteCustomer(customer_id, delete_type, force) ==
  /\ pc[EventLoop] = "idle"
  /\ reply.requests_left > 0
  /\ LET customer == get_customer_by_id(manager, customer_id)
         bookings == get_customer_bookings(manager, customer_id)
         in_file == FoundAt(load_raw_customers(manager.data_file), customer_id) # 0
         Answered(st) == Answer("delete", customer_id, None, delete_type, force, st)
     IN  IF IsNone(customer)
           THEN reply' = Answered(404) /\ manager' = manager
         ELSE IF HasConflict(bookings, delete_type, force)
           THEN reply' = Answered(409) /\ manager' = manager
         ELSE IF delete_type = "soft"
           THEN /\ manager' = soft_delete_customer(manager, customer_id)
                /\ reply' = Answered(200)
         ELSE IF delete_type = "cascade"
           THEN /\ manager' = cascade_delete_customer(manager, customer_id)
                /\ reply' = Answered(IF in_file THEN 200 ELSE 404)
         ELSE /\ manager' = hard_delete_customer(manager, customer_id)
              /\ reply' = Answered(IF in_file THEN 200 ELSE 500)
  /\ UNCHANGED <<cache, file, now, pc, loaded, req, tasks, uuids, hist>>

\* bookings.json belongs to another component, which books for a customer of
\* customers.json: get_customer_bookings reads the file anew at every call
MaxBookingWrites == 1
\* the places customers.json can have: the two it starts with and one for
\* each request
CustomerSlots == 1..(Len(<<JohnDoe, JaneSmith>>) + CustomerRequestCount)
ExternalBooking(i) ==
  /\ pc[EventLoop] = "idle"
  /\ hist.writes_left > 0
  /\ i \in DOMAIN load_raw_customers(manager.data_file)
  /\ LET customer == load_raw_customers(manager.data_file)[i]
         bookings == IF IsNone(manager.booking_file.content)
                       THEN <<>> ELSE Get(manager.booking_file.content)
         booking == [booking_id |-> Len(bookings) + 1,
                     customer_id |-> customer.customer_id]
     IN  manager' = [manager EXCEPT !.booking_file =
                       [exists |-> TRUE, content |-> Some(Append(bookings, booking))]]
  /\ hist' = [hist EXCEPT !.writes_left = @ - 1]
  /\ UNCHANGED <<cache, file, now, pc, loaded, req, tasks, uuids, reply>>

\* get_customer_data_manager (lines 194-196) has run: the manager is built
\* from the files as they were found
CustomerFiles ==
  {NoDataFile,
   [exists |-> TRUE, content |-> Some(<<JohnDoe, JaneSmith>>)],
   [exists |-> TRUE, content |-> None]}
BookingFiles ==
  {NoBookingFile,
   [exists |-> TRUE, content |-> Some(<<JohnBooking>>)],
   [exists |-> TRUE, content |-> Some(<<JohnBooking, JaneBooking>>)],
   [exists |-> TRUE, content |-> None]}
InitCustomers ==
  /\ cache = NewCache
  /\ file = NoFile
  /\ now = StartTime
  /\ pc = [t \in Threads |-> "idle"]
  /\ loaded = [t \in Threads |-> None]
  /\ req = NoRequest
  /\ tasks = 0
  /\ uuids = 0
  /\ hist = [requests_left |-> 0, ticks_left |-> 0, writes_left |-> MaxBookingWrites,
             snap |-> 0, snap_time |-> 0, data_version |-> 0,
             loaded_version |-> [t \in Threads |-> 0], write_version |-> 0,
             fresh_write |-> FALSE, failures |-> 0,
             loaded_epoch |-> [t \in Threads |-> 0], data_epoch |-> 0,
             after_read |-> FALSE]
  /\ \E data_file \in CustomerFiles, booking_file \in BookingFiles :
       manager = CustomerDataManager(data_file, booking_file)
  /\ reply = NoReply(CustomerRequestCount)

\* the customer handlers, one request after the other, and the bookings made
\* meanwhile
NextCustomers ==
  \/ \E i \in CustomerSlots : ExternalBooking(i)
  \/ \E customer \in CustomerCreates : CreateCustomer(customer)
  \/ \E customer_id \in CustomerPaths, customer_update \in CustomerUpdates :
       UpdateCustomer(customer_id, customer_update)
  \/ \E customer_id \in CustomerPaths, delete_type \in DeleteTypes, force \in BOOLEAN :
       DeleteCustomer(customer_id, delete_type, force)

Next ==
  \/ ProgramStep
  \/ \E d \in TickSteps : Tick(d)
  \/ \E c \in ExtContents : ExternalWrite(c)

NextLocal ==
  \/ ProgramStep
  \/ \E d \in TickSteps : Tick(d)

\* the event loop alone: one request after the other
NextSeq ==
  \/ \E r \in SeqRequests : StartRequest(r)
  \/ ReadCheck
  \/ ReadNone
  \/ ReadFilter
  \/ ReadSlice
  \/ HandlerBody
  \/ WriteOpen
  \/ WriteDump
  \/ WriteInvalidate
  \/ Respond
  \/ RefreshStep(EventLoop)

\* the event loop alone, answering queries and statistics requests
NextQuery ==
  \/ \E r \in QueryRequests : StartRequest(r)
  \/ CacheStats
  \/ ReadCheck
  \/ ReadNone
  \/ ReadFilter
  \/ ReadSlice
  \/ HandlerBody
  \/ WriteOpen
  \/ WriteDump
  \/ WriteInvalidate
  \/ Respond
  \/ RefreshStep(EventLoop)

\* the event loop alone, answering reads, statistics requests and the three
\* mutations
ReadWriteRequests ==
  {ListRequest(1, 20, NoFilters, FALSE),
   ListRequest(1, 20, [NoFilters EXCEPT !.name = Some(Tokyo.name),
                                        !.location = Some(Tokyo.location),
                                        !.price_range = Some(Tokyo.price_range),
                                        !.availability = Some(Tokyo.availability)], FALSE),
   GetRequest(Paris.destination_id),
   CreateRequest(Oslo),
   UpdateRequest(Paris.destination_id, Dearer),
   DeleteRequest(Tokyo.destination_id)}
NextReadWrite ==
  \/ \E r \in ReadWriteRequests : StartRequest(r)
  \/ CacheStats
  \/ ReadCheck
  \/ ReadNone
  \/ ReadFilter
  \/ ReadSlice
  \/ HandlerBody
  \/ WriteOpen
  \/ WriteDump
  \/ WriteInvalidate
  \/ Respond
  \/ RefreshStep(EventLoop)

\* searches by name and by location, with the thread pool, the clock and the
\* other writers of the file
SearchRequestCount == 3
SearchTicks == 1
SearchRequests ==
  {ListRequest(1, 20, [NoFilters EXCEPT !.name = Some(Tokyo.name)], FALSE),
   ListRequest(1, 20, [NoFilters EXCEPT !.location = Some(Tokyo.location)], FALSE)}
InitSearch == InitWith(SearchRequestCount, SearchTicks, MaxExtWrites)
NextSearch ==
  \/ \E r \in SearchRequests : StartRequest(r)
  \/ ReadCheck
  \/ ReadNone
  \/ ReadFilter
  \/ ReadSlice
  \/ HandlerBody
  \/ Respond
  \/ \E t \in Threads : RefreshStep(t)
  \/ \E t \in Workers : WorkerStart(t)
  \/ \E d \in TickSteps : Tick(d)
  \/ \E c \in ExtContents : ExternalWrite(c)

\* the process with writes that can fail
NextPersist ==
  \/ NextLocal
  \/ WriteOpenFails
  \/ WriteDumpFails

\* every thread that is inside refresh_cache keeps being scheduled
Fairness ==
  \A t \in Threads :
    /\ WF_vars(RefreshCheck(t))
    /\ WF_vars(RefreshSet(t))
    /\ WF_vars(RefreshOpen(t))
    /\ WF_vars(RefreshAssign(t))
    /\ WF_vars(RefreshBuild(t))
    /\ WF_vars(RefreshTime(t))
    /\ WF_vars(RefreshMtime(t))
    /\ WF_vars(RefreshExcept(t))
    /\ WF_vars(RefreshFinally(t))

Spec == Init /\ [][Next]_vars
SpecSeq == InitSeq /\ [][NextSeq]_vars
SpecQuery == InitQuery /\ [][NextQuery]_vars
SpecCore == InitCore /\ [][Next]_vars
SpecLocal == InitLocal /\ [][NextLocal]_vars
SpecCustomers == InitCustomers /\ [][NextCustomers]_vars
SpecSearch == InitSearch /\ [][NextSearch]_vars
SpecPersist == InitLocal /\ [][NextPersist]_vars
SpecReadWrite == InitQuery /\ [][NextReadWrite]_vars
FairSpecCore == InitCore /\ [][Next]_vars /\ Fairness

(***************************************************************************)
(* Properties.                                                             *)
(***************************************************************************)
AtDone == pc[EventLoop] = "done"
NoRebuild == \A t \in Threads : ~Rebuilding(t)

\* C1: the first read_destinations after a successful mutation answers from a
\* snapshot read from the file as that mutation wrote it, or from a later write
C1_NextReadSeesWrite ==
  (AtDone /\ Succeeded /\ req.first_after_write) => req.used_version >= req.write_seen

\* C3: a valid cache with no rebuild executing holds the records of the file
C3_ValidMeansCurrent ==
  (IsCacheValid(cache, file, now) /\ NoRebuild) => cache.data = file.content

\* C4: no successful read answers from a snapshot that was there, older than
\* CACHE_TTL, when the read began
C4_NoExpiredAnswer ==
  (AtDone /\ Succeeded) => ~(req.start_expired /\ req.used_snap = req.start_snap)

\* C5: where read_destinations consults the indexes, the four indexes are those
\* built from the sequence held in _cache.data
C5_IndexesMatchData ==
  (pc[EventLoop] = "rd_filter" /\ UsesIndexes(req.filters) /\ ~IsNone(cache.data))
    => Indexes(cache) = IndexesOf(Get(cache.data))

\* C6: at most one thread is between the two writes of is_refreshing
C6_OneRebuild == Cardinality({t \in Threads : Rebuilding(t)}) <= 1

\* C2: a successful mutation leaves in the store exactly the records that were
\* there, with the new one added, the target replaced, or the target removed
StoreBefore == IF IsNone(req.before) THEN <<>> ELSE Get(req.before)
C2_MutationKeepsOthers ==
  (AtDone /\ req.op \in Mutations /\ Succeeded /\ ~IsNone(file.content)) =>
    LET before == StoreBefore
        after == Get(file.content)
        others == {d \in SeqToSet(before) : d.destination_id # req.target}
    IN  CASE req.op = "create" ->
               /\ SeqToSet(after) = SeqToSet(before) \cup {Get(req.returned)}
               /\ Len(after) = Len(before) + 1
          [] req.op = "update" ->
               /\ SeqToSet(after) = others \cup {Get(req.returned)}
               /\ Len(after) = Len(before)
          [] req.op = "delete" ->
               /\ SeqToSet(after) = others
               /\ Len(after) = Len(before) - 1

\* C7: refresh_cache called while is_refreshing is set returns at once: no
\* read of the file, and the cache, flag included, is left as it was
C7_FlaggedRefreshIsNoOp ==
  [][\A t \in Threads :
       (pc[t] = "rf_check" /\ pc'[t] # "rf_check" /\ cache.is_refreshing)
         => /\ cache' = cache
            /\ file' = file
            /\ loaded' = loaded
            /\ pc'[t] = AfterRefresh(t)]_vars
\* a forced read whose refresh_cache has returned without a rebuild of its own
C7_Witness == pc[EventLoop] = "rd_none" /\ req.force /\ ~req.rebuilt

\* C8: a read that begins after a rebuild has failed answers only from a
\* snapshot read from the store after that failure
C8_NoAnswerFromBeforeFailure ==
  (AtDone /\ Succeeded) => req.used_epoch >= req.start_failures

\* C9: a thread that is rebuilding leaves the rebuild, and when no thread is
\* rebuilding is_refreshing is False
C9_FlagReleased ==
  /\ \A t \in Threads : Rebuilding(t) ~> ~Rebuilding(t)
  /\ [](NoRebuild => ~cache.is_refreshing)
\* a rebuild has failed, has ended, and the flag is down
C9_Witness == hist.failures > 0 /\ NoRebuild /\ ~cache.is_refreshing

\* C10: is_cache_valid() is True exactly when a snapshot exists, its age is at
\* most CACHE_TTL and the file, if there, is not newer than last_modified_time;
\* it is False at start and right after invalidate_cache
ValidConditions ==
  /\ ~IsNone(cache.data)
  /\ now - cache.last_refresh_time <= CACHE_TTL
  /\ file.exists => file.mtime <= cache.last_modified_time
C10_ValidIffThree ==
  /\ ~IsCacheValid(cache, file, now)
  /\ [](IsCacheValid(cache, file, now) <=> ValidConditions)
  /\ [][(pc[EventLoop] = "wr_inval" /\ pc'[EventLoop] = "done")
          => ~IsCacheValid(cache', file', now')]_vars
C10_Witness == IsCacheValid(cache, file, now) /\ file.exists /\ NoRebuild

\* C11: with a snapshot in place and no rebuild executing, every position is in
\* the price bucket of its record, and every position held by a bucket of any
\* of the four indexes is a position of the sequence whose record has that key
BucketsMatch(ix, data) ==
  /\ \A p \in AllPositions(data) :
       p \in SeqToSet(DictGet(ix.price_range_index, data[p + 1].price_range))
  /\ \A w \in DOMAIN ix.name_index : \A p \in SeqToSet(ix.name_index[w]) :
       p \in AllPositions(data) /\ w \in SeqToSet(LongWords(data[p + 1].name))
  /\ \A l \in DOMAIN ix.location_index : \A p \in SeqToSet(ix.location_index[l]) :
       p \in AllPositions(data) /\ Lower(data[p + 1].location) = l
  /\ \A r \in DOMAIN ix.price_range_index : \A p \in SeqToSet(ix.price_range_index[r]) :
       p \in AllPositions(data) /\ data[p + 1].price_range = r
  /\ \A a \in BOOLEAN : \A p \in SeqToSet(ix.availability_index[a]) :
       p \in AllPositions(data) /\ data[p + 1].availability = a
C11_IndexesConsistent ==
  (~IsNone(cache.data) /\ NoRebuild) => BucketsMatch(Indexes(cache), Get(cache.data))

\* C12: a non-forced read that follows a successful non-forced read, the file
\* untouched and the clock unmoved since that one began, is a
\* hit: hit_count goes up by one and refresh_cache is not called
IsHitStep ==
  /\ cache'.hit_count = cache.hit_count + 1
  /\ cache'.miss_count = cache.miss_count
  /\ pc'[EventLoop] = "rd_none"
C12_SecondReadIsHit ==
  [][(pc[EventLoop] = "rd_check" /\ pc'[EventLoop] # "rd_check"
        /\ hist.after_read /\ ~req.force) => IsHitStep]_vars
\* the second of two such reads has been classified
C12_Witness ==
  pc[EventLoop] = "rd_none" /\ hist.after_read /\ ~req.force /\ cache.hit_count > 0

\* C13: read_destinations adds 1 to access_count when it starts and then 1 to
\* miss_count (forced, or cache invalid) or else 1 to hit_count; nothing else
\* moves the counters, so the two add up to the reads that have been classified
Counters(c) == <<c.access_count, c.hit_count, c.miss_count>>
Unclassified == IF pc[EventLoop] = "rd_check" THEN 1 ELSE 0
StartsRead == pc[EventLoop] = "idle" /\ pc'[EventLoop] = "rd_check"
ClassifiesRead == pc[EventLoop] = "rd_check" /\ pc'[EventLoop] # "rd_check"
C13_CountersPerRead ==
  /\ [](cache.access_count = cache.hit_count + cache.miss_count + Unclassified)
  /\ [][StartsRead =>
          Counters(cache') =
            <<cache.access_count + 1, cache.hit_count, cache.miss_count>>]_vars
  /\ [][ClassifiesRead =>
          Counters(cache') =
            IF req.force \/ ~IsCacheValid(cache, file, now)
              THEN <<cache.access_count, cache.hit_count, cache.miss_count + 1>>
              ELSE <<cache.access_count, cache.hit_count + 1, cache.miss_count>>]_vars
  /\ [][~(StartsRead \/ ClassifiesRead) => Counters(cache') = Counters(cache)]_vars
\* a read has ended in an error after another read, both counted as misses
C13_Witness ==
  AtDone /\ req.status = 500 /\ Counters(cache) = <<2, 0, 2>>

\* C14: a read_destinations with force_refresh has called refresh_cache once
\* when it has passed line 133, and not before; the cache may be valid or not
PastClassification == pc[EventLoop] \notin {"idle", "rd_check"}
C14_ForcedCallsRefreshOnce ==
  req.force => req.refresh_calls = (IF PastClassification THEN 1 ELSE 0)
\* a forced read has just called refresh_cache on a cache that is valid
C14_Witness ==
  /\ pc[EventLoop] = "rf_check"
  /\ req.force
  /\ req.refresh_calls = 1
  /\ IsCacheValid(cache, file, now)

\* C15: get_destination answers 200 with the record of the requested id when
\* the snapshot holds one, and 404 only when it holds none
C15_GetFindsRecord ==
  (AtDone /\ req.op = "get" /\ req.status \in {200, 404} /\ ~IsNone(cache.data)) =>
    LET held == {d \in SeqToSet(Get(cache.data)) : d.destination_id = req.target}
    IN  IF held = {} THEN req.status = 404
        ELSE req.status = 200 /\ Get(req.returned) \in held


\* the positions of the snapshot whose record has the price tier and the
\* availability asked for
TierAndAvailability(data, q) ==
  {i \in AllPositions(data) :
     /\ PriceGiven(q) => data[i + 1].price_range = Get(q.price_range)
     /\ AvailabilityGiven(q) => data[i + 1].availability = Get(q.availability)}
\* C16: whenever read_destinations, asked for a price tier, an availability,
\* both or neither (and no name or location), counts and returns its matches,
\* they are exactly the records of the snapshot it reads them from that have
\* that price tier and that availability, false included.
C16_TierAndAvailabilityExact ==
  [][(/\ pc[EventLoop] = "rd_slice"
      /\ pc'[EventLoop] = "h_body"
      /\ req.op = "list"
      /\ ~NameGiven(req.filters)
      /\ ~LocationGiven(req.filters)
      /\ ~IsNone(cache.data)) =>
       LET data == Get(cache.data)
           want == TierAndAvailability(data, req.filters)
       IN  /\ req'.total_count = Cardinality(want)
           /\ SeqToSet(req'.items) \subseteq {data[i + 1] : i \in want}
           /\ Len(req'.items) = Min(req.limit, Max(0, Cardinality(want) - req.skip))]_vars
C16_Witness ==
  /\ pc[EventLoop] = "h_body"
  /\ req.filters = [NoFilters EXCEPT !.price_range = Some("budget"),
                                     !.availability = Some(FALSE)]
  /\ cache.data = Some(QueryContent)
  /\ req.items = <<Bali>>
  /\ req.total_count = 1

\* the name holds the whole filter string, letter case ignored
HoldsIgnoringCase(name, nf) ==
  \E k \in 1..(Len(name) - Len(nf) + 1) :
    \A j \in 1..Len(nf) : LowerChar(name[k + j - 1]) = LowerChar(nf[j])
NameOnly(q) ==
  NameGiven(q) /\ ~LocationGiven(q) /\ ~PriceGiven(q) /\ ~AvailabilityGiven(q)
Filtered == pc[EventLoop] = "rd_slice" /\ ~IsNone(cache.data)
\* C17: when read_destinations has applied a name filter none of whose words
\* longer than 2 is found in the name index, the records it has matched are
\* exactly those whose name contains the whole filter string, case ignored.
C17_FallbackIsSubstringScan ==
  (/\ Filtered
   /\ NameOnly(req.filters)
   /\ NameIndexMatches(Indexes(cache), Get(req.filters.name)) = {}) =>
    req.result_indexes =
      {i \in AllPositions(Get(cache.data)) :
         HoldsIgnoringCase(Get(cache.data)[i + 1].name, Get(req.filters.name))}
C17_Witness ==
  /\ Filtered
  /\ req.filters = [NoFilters EXCEPT !.name = Some(<<"w"," ","y">>)]
  /\ cache.data = Some(QueryContent)
  /\ NameIndexMatches(Indexes(cache), Get(req.filters.name)) = {}
  /\ req.result_indexes = {4}

\* the matched records are data[i + 1] for i in matched; item x can stand at
\* place k (from 0) of their ascending order by name: fewer than k + 1 of them
\* have a smaller name, and more than k have a name that is not greater
CanStandAt(x, k, data, matched) ==
  /\ \E i \in matched : data[i + 1] = x
  /\ Cardinality({i \in matched : StrLess(data[i + 1].name, x.name)}) <= k
  /\ Cardinality({i \in matched : ~StrLess(x.name, data[i + 1].name)}) > k
\* C18: whenever read_destinations counts and pages the records its filters
\* have matched, total_count is their number whatever skip and limit are, and
\* the page is the elements [skip, skip + limit) of those records in ascending
\* order of name, so it has min(limit, max(0, total_count - skip)) elements.
C18_CountAndPage ==
  [][(/\ pc[EventLoop] = "rd_slice"
      /\ pc'[EventLoop] = "h_body"
      /\ ~IsNone(cache.data)) =>
       LET data == Get(cache.data)
           matched == req.result_indexes
       IN  /\ req'.total_count = Cardinality(matched)
           /\ Len(req'.items) = Min(req.limit, Max(0, req'.total_count - req.skip))
           /\ \A k \in DOMAIN req'.items :
                CanStandAt(req'.items[k], req.skip + k - 1, data, matched)]_vars
C18_Witness ==
  /\ pc[EventLoop] = "h_body"
  /\ req.filters = [NoFilters EXCEPT !.availability = Some(TRUE)]
  /\ cache.data = Some(QueryContent)
  /\ req.skip = 2
  /\ req.limit = 2
  /\ req.total_count = 4
  /\ req.items = <<Paris, Tokyo>>

\* n is the least number of pages of the given size that hold count records
IsCeiling(n, count, size) == n * size >= count /\ (n - 1) * size < count
\* C19: every answer of the list endpoint reports total_pages =
\* ceil(total_count / page_size), has_next_page = (page < total_pages) and
\* has_prev_page = (page > 1), for page_size in 1..100 and page >= 1.
C19_PageArithmetic ==
  (AtDone /\ req.op = "list" /\ req.status = 200) =>
    /\ req.page >= 1
    /\ req.page_size \in 1..100
    /\ req.total_count >= 0
    /\ IsCeiling(req.total_pages, req.total_count, req.page_size)
    /\ req.has_next_page = (req.page < req.total_pages)
    /\ req.has_prev_page = (req.page > 1)
C19_Witness ==
  /\ AtDone
  /\ req.op = "list"
  /\ req.total_count = 4
  /\ req.page_size = 2
  /\ req.page = 2
  /\ req.total_pages = 2
  /\ ~req.has_next_page
  /\ req.has_prev_page

\* C20: in every state get_cache_stats returns without raising, with a
\* hit_rate_percentage of 0 when access_count is 0 and of
\* hit_count / access_count * 100 otherwise, between 0 and 100; the answer of
\* the statistics endpoint is that value.
C20_HitRateDefined ==
  /\ ~IsNone(GetCacheStats(cache, now))
  /\ LET rate == Get(GetCacheStats(cache, now)).hit_rate_percentage
     IN  /\ rate.den > 0
         /\ IF cache.access_count = 0 THEN rate.num = 0
            ELSE rate.num * cache.access_count = cache.hit_count * 100 * rate.den
         /\ 0 <= rate.num
         /\ rate.num <= 100 * rate.den
  /\ (AtDone /\ req.op = "stats") =>
       req.status = 200 /\ req.returned = GetCacheStats(cache, now)
C20_Witness ==
  /\ AtDone
  /\ req.op = "stats"
  /\ req.status = 200
  /\ Get(req.returned).access_count = 2
  /\ Get(req.returned).hit_rate_percentage = Ratio(100, 2)

\* C21: no step of the program (a rebuild that succeeds or fails,
\* invalidate_cache, a mutation, a read) makes access_count, hit_count or
\* miss_count smaller.
C21_CountersNeverDecrease ==
  [][/\ cache'.access_count >= cache.access_count
     /\ cache'.hit_count >= cache.hit_count
     /\ cache'.miss_count >= cache.miss_count]_vars
\* a mutation has just invalidated a cache with counted reads
C21_Witness ==
  /\ AtDone
  /\ req.op \in Mutations
  /\ Succeeded
  /\ IsNone(cache.data)
  /\ cache.access_count >= 2
  /\ cache.miss_count >= 2

\* the ids of the records the file holds; none for an absent file
StoredIds(f) ==
  IF IsNone(f.content) THEN {}
  ELSE {Get(f.content)[k].destination_id : k \in DOMAIN Get(f.content)}
Readable(f) == ~f.exists \/ ~IsNone(f.content)
\* C22: when update_destination or delete_destination, having read, looks for
\* an id that the backing store does not hold (no other process has written
\* the store since the request began), it answers 404 at once: it writes
\* nothing to the store and does not reach invalidate_cache.
C22_AbsentIdWritesNothing ==
  [][(/\ pc[EventLoop] = "h_body"
      /\ pc'[EventLoop] # "h_body"
      /\ req.op \in {"update", "delete"}
      /\ req.start_writes = hist.writes_left
      /\ Readable(file)
      /\ req.target \notin StoredIds(file)) =>
       /\ pc'[EventLoop] = "done"
       /\ req'.status = 404
       /\ file' = file
       /\ cache' = cache]_vars
C22_Witness ==
  /\ AtDone
  /\ req.op = "update"
  /\ req.status = 404
  /\ file.content = Some(<<Tokyo>>)
  /\ cache.data = Some(<<Tokyo>>)

UpdateFields == {"name", "location", "description", "price_range", "availability"}
\* the records of the list with this id
WithId(list, id) == {d \in SeqToSet(list) : d.destination_id = id}
\* C23: an update answered 200 returns a record with the id of the target,
\* the value of the request for every field the request holds and the value
\* the target had in the store for every other field; the store then holds
\* that record, and no other record with that id.
C23_UpdateKeepsOtherFields ==
  (AtDone /\ req.op = "update" /\ req.status = 200) =>
    /\ ~IsNone(req.before)
    /\ ~IsNone(req.returned)
    /\ ~IsNone(file.content)
    /\ LET new == Get(req.returned)
       IN  /\ new.destination_id = req.target
           /\ \E old \in WithId(Get(req.before), req.target) :
                \A f \in UpdateFields :
                  new[f] = IF IsNone(req.body[f]) THEN old[f] ELSE Get(req.body[f])
           /\ WithId(Get(file.content), req.target) = {new}
C23_Witness ==
  /\ AtDone
  /\ req.op = "update"
  /\ req.status = 200
  /\ req.body = Closed
  /\ Get(req.returned) =
       [Tokyo EXCEPT !.name = <<"K","y","o","t","o">>, !.availability = FALSE]
  /\ file.content = Some(<<Get(req.returned), Paris>>)

\* thread t executes line 103
Builds(t) == pc[t] = "rf_build" /\ pc'[t] = "rf_time"
\* C26: the four indexes that build_indexes leaves depend on _cache.data
\* alone, the empty sequence included: whatever the indexes were before, they
\* are afterwards the ones built for that sequence from empty indexes.
C26_BuildDependsOnDataOnly ==
  [][\A t \in Threads :
       (Builds(t) /\ ~IsNone(cache.data)) =>
         Indexes(cache') = IndexLoop(EmptyIndexes, Get(cache.data), 0,
                                     Len(Get(cache.data)))]_vars

\* C27: a read that took the miss path and whose request succeeds is answered
\* from a snapshot installed after the read began, whether or not another
\* rebuild was in progress when it called refresh_cache.
C27_MissAnsweredFromNewSnapshot ==
  (AtDone /\ Succeeded /\ req.refresh_calls = 1) => req.used_snap > req.start_snap

\* read_destinations executes lines 131-137
Classifies == pc[EventLoop] = "rd_check" /\ pc'[EventLoop] # "rd_check"
\* C28: a read classified as a hit adds the background refresh task exactly
\* when it was given a task facility, the snapshot is older than 80% of
\* CACHE_TTL and no rebuild is in progress, and it never rebuilds itself; a
\* read classified as a miss adds no task.
C28_ScheduledWhenOldAndIdle ==
  [][Classifies =>
       IF cache'.hit_count = cache.hit_count + 1
         THEN /\ req'.sched <=>
                   /\ req.bg
                   /\ (now - cache.last_refresh_time) * 10 > CACHE_TTL * 8
                   /\ ~cache.is_refreshing
              /\ pc'[EventLoop] = "rd_none"
         ELSE ~req'.sched]_vars

\* where the event loop is after read_destinations has classified a hit
AfterHit == {"rd_none", "rd_filter", "rd_slice", "h_body", "done"}
\* C29: the request that adds the background task runs no rebuild itself; the
\* task is handed to the pool only when that request's answer, a success, is
\* sent; and the failure of a rebuild in a pool thread changes no local and
\* no status of any request. With no snapshot installed meanwhile, the answer
\* is computed from the snapshot that was there when the request began.
C29_BackgroundFailureUnseen ==
  /\ [](req.sched => pc[EventLoop] \in AfterHit /\ req.refresh_calls = 0)
  /\ []((AtDone /\ req.sched /\ Succeeded /\ hist.snap = req.start_snap)
          => req.used_snap = req.start_snap)
  /\ [][tasks' > tasks =>
          AtDone /\ req.sched /\ req.status = 200 /\ pc'[EventLoop] = "idle"]_vars
  /\ [][\A t \in Workers :
          (pc[t] = "rf_except" /\ pc'[t] # "rf_except") =>
            req' = req /\ pc'[EventLoop] = pc[EventLoop]]_vars
\* a rebuild run as a task has failed after the request that added it was
\* answered
C29_Witness ==
  /\ \E t \in Workers : pc[t] = "rf_finally_err"
  /\ pc[EventLoop] = "idle"
  /\ hist.failures = 1
  /\ cache.hit_count = 1

\* thread t executes lines 96-102 of refresh_cache
Opens(t) == pc[t] = "rf_open" /\ pc'[t] # "rf_open"
Handled == reply'.requests_left < reply.requests_left
\* the id of customer c as text
IdText(c) == Str(c.customer_id)
\* some customer of m other than the one with id text t has this email,
\* ignoring case
UsedByAnother(m, email, t) ==
  \E c \in get_all_customers(m) : IdText(c) # t /\ Lower(c.email) = Lower(email)
\* no two customers of the index, and no two records of customers.json, have
\* emails equal ignoring case
EmailsDistinct ==
  /\ \A j, k \in DOMAIN manager.customer_index :
       j # k => Lower(manager.customer_index[j].email) # Lower(manager.customer_index[k].email)
  /\ LET customers == load_raw_customers(manager.data_file)
     IN  \A i, j \in DOMAIN customers :
           i # j => Lower(customers[i].email) # Lower(customers[j].email)
\* a create with an email in use is answered 400 and changes nothing
DuplicateCreateRejected ==
  (/\ Handled
   /\ reply'.op = "create"
   /\ UsedByAnother(manager, Get(reply'.email), Str(Uuid(0))))
  => (reply'.status = 400 /\ manager' = manager)
\* an update of customer c to an email another customer uses is answered 400
\* and changes nothing
ConflictingUpdateRejected(c) ==
  (/\ Handled
   /\ reply'.op = "update"
   /\ IdText(c) = Str(reply'.customer_id)
   /\ ~IsNone(reply'.email)
   /\ UsedByAnother(manager, Get(reply'.email), IdText(c)))
  => (reply'.status = 400 /\ manager' = manager)
\* the customers the manager found in customers.json when it was built; the
\* three parts hold for them
LoadedAtStart(m) == {c \in get_all_customers(m) : c.customer_id.type = "str"}
C24_LoadedCustomersOnly ==
  /\ []EmailsDistinct
  /\ [][DuplicateCreateRejected]_vars
  /\ [][\A c \in LoadedAtStart(manager) : ConflictingUpdateRejected(c)]_vars

\* C24: after any sequence of customer creates and updates no two customers
\* have emails equal ignoring case: a create with an email in use, and an
\* update changing a customer's email to one another customer uses, are
\* answered 400 and leave the customer set as it was.
C24_EmailsUnique ==
  /\ []EmailsDistinct
  /\ [][DuplicateCreateRejected]_vars
  /\ [][\A c \in get_all_customers(manager) : ConflictingUpdateRejected(c)]_vars

\* the bookings of m made for the customer with id text t
BookingsOf(m, t) ==
  IF ~m.booking_file.exists \/ IsNone(m.booking_file.content)
    THEN {}
    ELSE {i \in DOMAIN Get(m.booking_file.content) :
            Get(m.booking_file.content)[i].customer_id = t}
\* the customers of m with id text t, in the index and in the file
Known(m, t) ==
  {c \in get_all_customers(m) : IdText(c) = t}
    \cup {c \in Range(load_raw_customers(m.data_file)) : IdText(c) = t}
\* a delete of customer c, who has a booking, has just been answered
DeletesBooked(c) ==
  /\ Handled
  /\ reply'.op = "delete"
  /\ IdText(c) = Str(reply'.customer_id)
  /\ BookingsOf(manager, IdText(c)) # {}
\* hard or cascade without force: 409, customers and bookings as they were
Refused(c) ==
  (DeletesBooked(c) /\ reply'.delete_type \in {"hard", "cascade"} /\ ~reply'.force)
  => (reply'.status = 409 /\ manager' = manager)
\* soft, or force: answered 200; a soft delete keeps the customer, marked
\* inactive, and the bookings; a hard delete removes the customer and keeps
\* the bookings; a cascade delete removes the customer and the bookings
Proceeds(c) ==
  (DeletesBooked(c) /\ (reply'.delete_type = "soft" \/ reply'.force))
  => /\ reply'.status = 200
     /\ reply'.delete_type = "soft" =>
          /\ Known(manager', IdText(c)) # {}
          /\ \A d \in Known(manager', IdText(c)) : d.is_active = Some(FALSE)
          /\ manager'.booking_file = manager.booking_file
     /\ reply'.delete_type = "hard" =>
          /\ Known(manager', IdText(c)) = {}
          /\ manager'.booking_file = manager.booking_file
     /\ reply'.delete_type = "cascade" =>
          /\ Known(manager', IdText(c)) = {}
          /\ BookingsOf(manager', IdText(c)) = {}
\* both parts hold for the customers the manager found in customers.json
C25_LoadedCustomersOnly ==
  [][\A c \in LoadedAtStart(manager) : Refused(c) /\ Proceeds(c)]_vars

\* C25: deleting a customer who has at least one booking with delete_type hard
\* or cascade and force = false is answered with a conflict error and changes
\* neither the customers nor the bookings; with force = true, or with
\* delete_type soft, the delete proceeds.
C25_BookedCustomerKept ==
  [][\A c \in get_all_customers(manager) : Refused(c) /\ Proceeds(c)]_vars

\* w, in lower case, stands in name as a whole word: a run of word characters
\* with no word character before or after it
IsWholeWord(name, w) ==
  \E k \in 1..(Len(name) - Len(w) + 1) :
    /\ \A j \in 1..Len(w) : LowerChar(name[k + j - 1]) = w[j]
    /\ k = 1 \/ ~IsWordChar(name[k - 1])
    /\ k + Len(w) > Len(name) \/ ~IsWordChar(name[k + Len(w)])
\* the tokens of a name filter: its words in lower case that are longer than 2
Tokens(nf) == SeqToSet(LongWords(nf))
\* the positions of the records having one of the tokens as a whole word
TokenUnion(data, nf) ==
  {i \in AllPositions(data) : \E w \in Tokens(nf) : IsWholeWord(data[i + 1].name, w)}
\* read_destinations goes through lines 147-167 on a snapshot
AppliesFilters ==
  /\ pc[EventLoop] = "rd_filter"
  /\ pc'[EventLoop] = "rd_slice"
  /\ ~IsNone(cache.data)
\* C31: when read_destinations applies a name filter one of whose tokens
\* is a key of the name index, the records it matches are exactly those
\* having one of the filter's tokens as a whole word of their name in lower
\* case; the substring scan decides only when no record has one.
C31_TokenUnion ==
  [][(AppliesFilters /\ NameOnly(req.filters)) =>
       LET nf == Get(req.filters.name)
           union == TokenUnion(Get(cache.data), nf)
       IN  /\ (\E w \in Tokens(nf) : w \in DOMAIN cache.name_index) =>
                req'.result_indexes = union
           /\ union # {} => req'.result_indexes = union]_vars

LocationOnly(q) ==
  LocationGiven(q) /\ ~NameGiven(q) /\ ~PriceGiven(q) /\ ~AvailabilityGiven(q)
\* the positions of the records whose location is the filter, case ignored
SameLocation(data, lf) ==
  {i \in AllPositions(data) :
     /\ Len(data[i + 1].location) = Len(lf)
     /\ \A j \in 1..Len(lf) : LowerChar(data[i + 1].location[j]) = LowerChar(lf[j])}
\* the positions of the records whose location holds the filter, case ignored
WithinLocation(data, lf) ==
  {i \in AllPositions(data) : HoldsIgnoringCase(data[i + 1].location, lf)}
\* C32: the records a location filter matches are those whose location in
\* lower case equals the filter in lower case when there are any, and
\* otherwise those whose location contains the filter, case ignored; so some
\* record is matched whenever a location contains the filter.
C32_LocationExactThenSubstring ==
  [][(AppliesFilters /\ LocationOnly(req.filters)) =>
       LET lf == Get(req.filters.location)
           same == SameLocation(Get(cache.data), lf)
           within == WithinLocation(Get(cache.data), lf)
       IN  /\ req'.result_indexes = IF same # {} THEN same ELSE within
           /\ within # {} => req'.result_indexes # {}]_vars

\* one of the filters asked for finds nothing: no token of the name is a key
\* and no name holds the filter, the location is no key and no location holds
\* it, the tier is no key, or the availability has an empty bucket
FindsNothing(c, q) ==
  \/ /\ NameGiven(q)
     /\ \A w \in Tokens(Get(q.name)) : w \notin DOMAIN c.name_index
     /\ \A i \in AllPositions(Get(c.data)) :
          ~HoldsIgnoringCase(Get(c.data)[i + 1].name, Get(q.name))
  \/ /\ LocationGiven(q)
     /\ Lower(Get(q.location)) \notin DOMAIN c.location_index
     /\ WithinLocation(Get(c.data), Get(q.location)) = {}
  \/ /\ PriceGiven(q)
     /\ Get(q.price_range) \notin DOMAIN c.price_range_index
  \/ /\ AvailabilityGiven(q)
     /\ c.availability_index[Get(q.availability)] = <<>>
Keys(c) ==
  [name |-> DOMAIN c.name_index, location |-> DOMAIN c.location_index,
   price_range |-> DOMAIN c.price_range_index,
   availability |-> DOMAIN c.availability_index]
\* C33: a query one of whose filters finds nothing in the indexes and the
\* records is answered 200 with an empty page and total_count 0: the filter
\* step matches nothing, raises nothing and leaves the keys of the four
\* indexes as they were, and an empty match is paged and answered without
\* error.
C33_AbsentKeyIsEmptyPage ==
  /\ [][(/\ pc[EventLoop] = "rd_filter"
         /\ pc'[EventLoop] # "rd_filter"
         /\ ~IsNone(cache.data)
         /\ FindsNothing(cache, req.filters)) =>
          /\ pc'[EventLoop] = "rd_slice"
          /\ req'.result_indexes = {}
          /\ req'.status = 0
          /\ Keys(cache') = Keys(cache)]_vars
  /\ [][(/\ pc[EventLoop] = "rd_slice"
         /\ pc'[EventLoop] # "rd_slice"
         /\ req.result_indexes = {}) =>
          /\ pc'[EventLoop] = "h_body"
          /\ req'.items = <<>>
          /\ req'.total_count = 0
          /\ req'.status = 0]_vars
  /\ [][(/\ pc[EventLoop] = "h_body"
         /\ pc'[EventLoop] # "h_body"
         /\ req.op = "list"
         /\ req.total_count = 0) =>
          /\ pc'[EventLoop] = "done"
          /\ req'.status = 200
          /\ req'.items = <<>>
          /\ req'.total_count = 0]_vars
C33_Witness ==
  /\ AtDone
  /\ req.op = "list"
  /\ req.filters = [NoFilters EXCEPT !.price_range = Some("moderate"),
                                     !.availability = Some(FALSE)]
  /\ cache.data = Some(<<Tokyo>>)
  /\ req.status = 200
  /\ req.items = <<>>
  /\ req.total_count = 0

\* the event loop leaves write_destinations through its except clause
PersistFails ==
  /\ pc[EventLoop] \in {"wr_open", "wr_dump"}
  /\ pc'[EventLoop] = "done"
\* the event loop runs a line of a mutation between the return of its read
\* and invalidate_cache
BetweenReadAndInvalidate ==
  /\ pc[EventLoop] \in {"h_body", "wr_open", "wr_dump"}
  /\ pc'[EventLoop] # pc[EventLoop]
  /\ req.op \in Mutations
\* the change the mutation asked for is not in the snapshot
NotInSnapshot(data) ==
  CASE req.op = "create" -> Get(req.returned) \notin Range(data)
    [] req.op = "update" ->
         Get(req.returned) \in Range(data) => Get(req.returned) \in Range(req.items)
    [] req.op = "delete" -> FirstWithId(data, req.target) # 0
\* C34: when the write of a mutation fails the caller gets an error and
\* invalidate_cache is not run; no line of the handler between its forced
\* read and invalidate_cache changes the cache, so the snapshot and the
\* indexes stay those the forced read left, and the change that was not
\* written is not in the snapshot.
C34_FailedWriteLeavesCache ==
  /\ [][PersistFails => (req'.status = 500 /\ cache' = cache)]_vars
  /\ [][BetweenReadAndInvalidate => cache' = cache]_vars
  /\ [][(PersistFails /\ ~IsNone(cache.data) /\ hist.snap = req.used_snap) =>
          NotInSnapshot(Get(cache'.data))]_vars
C34_Witness ==
  /\ AtDone
  /\ req.op = "create"
  /\ req.status = 500
  /\ ~IsNone(req.returned)
  /\ req.to_write = <<Paris, Tokyo, Get(req.returned)>>
  /\ cache.data = Some(SeedContent)
  /\ Indexes(cache) = IndexesOf(SeedContent)
  /\ file.content = Some(SeedContent)

\* the records the filters q match in the snapshot c, in the order of the answer
Matching(c, q) ==
  SortByName(Materialize(Get(c.data),
                         FilterPositions(AllPositions(Get(c.data)), Indexes(c),
                                         Get(c.data), q)))
\* page p of the given size of a list: its elements (p - 1) * size + 1 to p * size
PageOf(all, p, size) ==
  [k \in 1..Max(0, Min(size, Len(all) - (p - 1) * size)) |-> all[(p - 1) * size + k]]
\* the places <<p, k>> of the pages 1..n at which x stands
PlacesOf(x, all, n, size) ==
  {pk \in (1..n) \X (1..size) :
     /\ pk[2] \in DOMAIN PageOf(all, pk[1], size)
     /\ PageOf(all, pk[1], size)[pk[2]] = x}
\* C35: on one snapshot, with the same filters and page_size, the page an
\* answer of the list endpoint returns is page number "page" of the matching
\* records, every matching record stands at exactly one place of the pages
\* 1..total_pages, and a page beyond total_pages is empty.
C35_PagesPartition ==
  (AtDone /\ req.op = "list" /\ req.status = 200 /\ ~IsNone(cache.data)) =>
    LET all == Matching(cache, req.filters)
        size == req.page_size
    IN  /\ req.items = PageOf(all, req.page, size)
        /\ \A x \in Range(all) :
             Cardinality(PlacesOf(x, all, req.total_pages, size)) = 1
        /\ \A p \in (req.total_pages + 1)..(req.total_pages + MaxPage) :
             PageOf(all, p, size) = <<>>
        /\ req.page > req.total_pages => req.items = <<>>
C35_Witness ==
  /\ AtDone
  /\ req.op = "list"
  /\ req.status = 200
  /\ cache.data = Some(QueryContent)
  /\ req.filters = NoFilters
  /\ req.page = 3
  /\ req.page_size = 2
  /\ req.total_pages = 3
  /\ req.items = <<Tokyo>>

\* C36: whenever the event loop is between two requests, access_count =
\* hit_count + miss_count.
C36_CountersBalance ==
  pc[EventLoop] = "idle" =>
    cache.access_count = cache.hit_count + cache.miss_count
C36_Witness ==
  /\ pc[EventLoop] = "idle"
  /\ cache.hit_count >= 1
  /\ cache.miss_count >= 2
  /\ hist.failures >= 1
  /\ \E t \in Workers : Rebuilding(t)

\* C37: in an answer of the list endpoint has_next_page is true exactly when
\* page + 1, of the same page_size and filters on the same snapshot, holds a
\* record, and the page returned holds a record exactly when page <= total_pages.
C37_NextPageFlag ==
  (AtDone /\ req.op = "list" /\ req.status = 200 /\ ~IsNone(cache.data)) =>
    /\ req.has_next_page <=>
         PageOf(Matching(cache, req.filters), req.page + 1, req.page_size) # <<>>
    /\ req.items # <<>> <=> req.page <= req.total_pages
C37_Witness ==
  /\ AtDone
  /\ req.op = "list"
  /\ req.status = 200
  /\ cache.data = Some(QueryContent)
  /\ req.filters = [NoFilters EXCEPT !.availability = Some(TRUE)]
  /\ req.page = 1
  /\ req.page_size = 3
  /\ req.has_next_page
  /\ req.items = <<NewDelhi, NewYork, Paris>>

\* the event loop runs lines 139-175 of read_destinations
InQueryPhase ==
  /\ pc[EventLoop] \in {"rd_none", "rd_filter", "rd_slice"}
  /\ pc'[EventLoop] # pc[EventLoop]
\* C38: reads do not write: get_cache_stats changes nothing of the cache; the
\* filter, sort and paginate phase of read_destinations leaves the snapshot
\* sequence, the four indexes, last_refresh_time and last_modified_time as
\* they were; and the handler that appends to the list it was returned, or
\* replaces or removes an item of it, leaves the cached sequence as it was.
C38_ReadsDoNotWrite ==
  /\ [][(pc[EventLoop] = "idle" /\ pc'[EventLoop] = "done" /\ req'.op = "stats") =>
          cache' = cache]_vars
  /\ [][InQueryPhase =>
          /\ cache'.data = cache.data
          /\ Indexes(cache') = Indexes(cache)
          /\ cache'.last_refresh_time = cache.last_refresh_time
          /\ cache'.last_modified_time = cache.last_modified_time]_vars
  /\ [][(pc[EventLoop] = "h_body" /\ pc'[EventLoop] # "h_body") =>
          cache'.data = cache.data]_vars
C38_Witness ==
  /\ pc[EventLoop] = "wr_open"
  /\ req.op = "update"
  /\ cache.data = Some(QueryContent)
  /\ req.items = <<Bali, NewDelhi, NewYork, Paris, Tokyo>>
  /\ req.to_write # req.items
  /\ cache.access_count >= 2

\* the destination ids of a list of records, in list order
IdsOf(list) == [i \in 1..Len(list) |-> list[i].destination_id]
PairwiseDistinct(ids) ==
  \A i, j \in 1..Len(ids) : i # j => ids[i] # ids[j]
\* the ids of the records in destinations.json, none if it cannot be parsed
FileIds == IF IsNone(file.content) THEN <<>> ELSE IdsOf(Get(file.content))
\* the handler body of a create, update or delete that found its record
Mutates(op) ==
  /\ pc[EventLoop] = "h_body"
  /\ pc'[EventLoop] = "wr_open"
  /\ req.op = op
\* C39: the destination ids of the backing store are pairwise distinct after
\* any sequence of create, update and delete operations on a store whose ids
\* were distinct: create appends one record whose id is neither in the list
\* it read nor in the store, update writes back the same ids in the same
\* order and answers with the id it was asked for, and delete writes back the
\* ids it read without the one it removed.
C39_IdsStayDistinct ==
  /\ [](PairwiseDistinct(FileIds))
  /\ [][Mutates("create") =>
          LET new == Get(req'.returned).destination_id
          IN  /\ IdsOf(req'.to_write) = Append(IdsOf(req.items), new)
              /\ \A i \in 1..Len(req.items) : req.items[i].destination_id # new
              /\ \A i \in 1..Len(FileIds) : FileIds[i] # new]_vars
  /\ [][Mutates("update") =>
          /\ IdsOf(req'.to_write) = IdsOf(req.items)
          /\ Get(req'.returned).destination_id = req.target]_vars
  /\ [][Mutates("delete") =>
          /\ Len(req'.to_write) = Len(req.items) - 1
          /\ \A i \in 1..Len(req'.to_write) :
                /\ req'.to_write[i].destination_id # req.target
                /\ \E j \in 1..Len(req.items) : req.items[j] = req'.to_write[i]]_vars
C39_Witness ==
  /\ pc[EventLoop] = "done"
  /\ req.op = "delete"
  /\ req.status = 204
  /\ uuids = 1
  /\ file.content =
       Some(<<Bali, NewDelhi, NewYork, NewDestination(Oslo, FirstUuid),
              Updated(Paris, Dearer)>>)

====
